---- MODULE Spec2Model ----
(***************************************************************************)
(* Model of the workflow engine: GraphEngine.execute and its helpers       *)
(* (app/core/graph_engine.py), over the data model of app/core/models.py   *)
(* and the tool registry of app/core/tool_registry.py.                     *)
(*                                                                         *)
(* Python values are represented as follows.                               *)
(*   - None in a string-typed optional field (current_node, tool_name,     *)
(*     condition, next_node) is the string None below; the empty string    *)
(*     is kept distinct because Python tests these fields by truthiness.   *)
(*   - run.error / log.error are NoError (<<>>) or a message, a tuple      *)
(*     <<text, argument>>.                                                 *)
(*   - a timestamp is NoTime or Stamped: only "is it set" is observable.   *)
(*   - a payload (WorkflowState.data) is a record [x |-> n]; the payload   *)
(*     of the code review tools is a record of their keys, and a reference *)
(*     into a heap of objects where aliasing matters.                      *)
(*                                                                         *)
(* Specifications.                                                         *)
(*   Spec         execute on every graph of two nodes A, B with up to      *)
(*                MaxEdges edges (targets A, B or a name that is no node)  *)
(*   SpecFair     the same with negative max_iterations as well, under     *)
(*                weak fairness of the engine's steps                      *)
(*   SpecSel      execute on graphs START A -> END B, C whose edges out of *)
(*                A are drawn from a larger set of conditions              *)
(*   SpecChain    execute on chains of up to MaxChain FUNCTION nodes,      *)
(*                alone or closed by a back edge, with tool names the      *)
(*                registry may not hold                                    *)
(*   SpecCancel   SpecChain with the caller cancelling the task            *)
(*   SpecRegistry one caller of register / unregister / clear              *)
(*   SpecThreads  two threads inside ToolRegistry.register                 *)
(*   SpecIngress  POST /graph/create (app/api/routes.py) and the graphs    *)
(*                table of the storage                                     *)
(*   SpecTyped    execute on chains A -> B of nodes of every type, with    *)
(*                and without tool_name, on an empty or a filled registry  *)
(*   SpecService  POST /graph/run and GET /graph/state/{run_id} over the   *)
(*                runs table (app/storage/sqlite_storage.py), with the     *)
(*                JSON and ISO-8601 texts the table holds                  *)
(*   SpecTwoRuns  two calls of execute interleaved step by step            *)
(*   SpecLive     execute on chains while register / unregister are called *)
(*   SpecBlocking two calls of execute on one event loop, synchronous      *)
(*                tools running on worker threads                          *)
(*   SpecReview   execute on the graph of app/workflows/code_review.py     *)
(*                with the cap of 10, under weak fairness                  *)
(*   SpecRefs     execute on chains of extract_functions and               *)
(*                check_complexity, payloads and logs held by reference    *)
(***************************************************************************)
EXTENDS Integers, Sequences, FiniteSets, TLC

\* ------------------------------------------------------------------ bounds
\* Largest max_iterations handed to execute.
MaxIter == 3
\* Largest number of edges of a generated graph.
MaxEdges == 2
\* Largest value of x in an initial payload.
MaxX0 == 1
\* Largest number of edges of an edge list handed to successor selection.
MaxSelEdges == 3
\* Largest value of x in a payload handed to successor selection.
MaxSelX == 1
\* Largest number of nodes of a generated chain.
MaxChain == 3
\* Largest number of nodes of a create request.
MaxReqNodes == 2
\* Largest number of graphs stored.
MaxGraphs == 2
\* POST /graph/run: the most requests answered in a behaviour.
MaxRuns == 2

\* ------------------------------------------------------------ python values
None == "<None>"
NoError == <<>>
NoTime == "unset"
Stamped == "set"

\* Truthiness of an Optional[str] (`if s:` / `while s:`).
Truthy(s) == s # None /\ s # ""

\* RunStatus
PENDING == "pending"
RUNNING == "running"
COMPLETED == "completed"
FAILED == "failed"

\* NodeType
FUNCTION == "function"
CONDITIONAL == "conditional"
START == "start"
END == "end"

\* ----------------------------------------------------------------- payloads
Payload(n) == [x |-> n]

\* ---------------------------------------------------------- error messages
ErrMaxIterations == <<"Maximum iterations exceeded. Possible infinite loop detected.", "">>
\* Variant: the message does not say which node is missing.
ErrNodeNotFound_Unnamed(n) == <<"Node not found in graph", "">>
ErrNodeNotFound(n) == <<"Node not found in graph", n>>
ErrNoToolName(n) == <<"Function node has no tool_name", n>>
ErrToolNotFound(t) == <<"Tool not found in registry", t>>
ErrUnknownNodeType(t) == <<"Unknown node type", t>>
ErrToolRaised(t) == <<"tool raised", t>>
ErrAlreadyRegistered(n) == <<"Tool already registered. Use override=True to replace it.", n>>
ErrNotCallable(n) == <<"Tool must be callable", n>>
ErrKeyNotFound(n) == <<"Tool not found", n>>
ErrEntryPoint(n) == <<"Entry point not found in nodes", n>>
ErrEdgeFrom(n) == <<"Edge from_node not found in nodes", n>>
ErrEdgeTo(n) == <<"Edge to_node not found in nodes", n>>

\* -------------------------------------------------------- code review tools
(* The tools of code_review.py on a payload mapping with the keys they     *)
(* read and write; a key holds <<v>> for the value v and <<>> when it is    *)
(* not in the mapping.  The source text under 'code' is given by what      *)
(* ast.parse finds in it: one                                              *)
(* record per function definition with its number of lines, the number of  *)
(* decision keywords in its text and its deepest indentation level.        *)
(* Scores are counted in quarter points (10.0 is 40).  The keys            *)
(* num_functions, issue_count and suggestion_count, the lengths of the     *)
(* lists, are left out.                                                    *)
ReviewPayload(code, improvement_iteration) ==
    [code |-> code, functions |-> <<>>, avg_complexity |-> <<>>,
     issues |-> <<>>, suggestions |-> <<>>,
     improvement_iteration |-> improvement_iteration,
     quality_score |-> <<>>, quality_passed |-> <<>>]

\* state.get(key, default)
GetOr(value, default) == IF value = <<>> THEN default ELSE value[1]

\* sum(...) over a list of numbers
RECURSIVE SumOf(_)
SumOf(seq) == IF seq = <<>> THEN 0 ELSE Head(seq) + SumOf(Tail(seq))

\* The lists of a list, one after the other.
RECURSIVE Chained(_)
Chained(seqs) == IF seqs = <<>> THEN <<>> ELSE Head(seqs) \o Chained(Tail(seqs))

\* extract_functions: 'functions' is bound to a new list, one record per
\* function definition of 'code'.
extract_functions(state) ==
    [state EXCEPT !.functions =
        <<[i \in DOMAIN state.code |->
             [num_lines |-> state.code[i].num_lines,
              code |-> state.code[i], complexity |-> <<>>]]>>]

\* check_complexity: 1 + the decision keywords, written into each record;
\* 'avg_complexity' in hundredths, 0 for an empty list.
check_complexity(state) ==
    LET before == GetOr(state.functions, <<>>)
        functions ==
            [i \in DOMAIN before |->
                [before[i] EXCEPT !.complexity = <<1 + before[i].code.decisions>>]]
    IN  [state EXCEPT
            !.functions = IF state.functions = <<>> THEN <<>> ELSE <<functions>>,
            !.avg_complexity =
                IF functions # <<>>
                THEN <<(100 * SumOf([i \in DOMAIN functions |-> functions[i].complexity[1]]))
                          \div Len(functions)>>
                ELSE <<0>>]

\* detect_issues: the issues of one function, in the order they are appended.
IssuesOf(func) ==
    LET complexity == GetOr(func.complexity, 0)
    IN  (IF func.num_lines > 50
         THEN <<[type |-> "long_function", severity |-> "medium"]>>
         ELSE <<>>)
        \o (IF complexity > 10
            THEN <<[type |-> "high_complexity", severity |-> "high"]>>
            ELSE IF complexity > 7
            THEN <<[type |-> "moderate_complexity", severity |-> "medium"]>>
            ELSE <<>>)
        \o (IF func.code.max_indent > 4
            THEN <<[type |-> "deep_nesting", severity |-> "medium"]>>
            ELSE <<>>)
        \o <<[type |-> "missing_docstring", severity |-> "low"]>>

detect_issues(state) ==
    [state EXCEPT !.issues = 
        <<Chained([i \in DOMAIN GetOr(state.functions, <<>>) |->
                      IssuesOf(GetOr(state.functions, <<>>)[i])])>>]

\* suggest_improvements: one suggestion per kind of issue found, and the
\* counter of the improvement loop goes up by one.
suggest_improvements(state) ==
    LET issue_types == {issue.type : issue \in
                           {GetOr(state.issues, <<>>)[i] :
                               i \in DOMAIN GetOr(state.issues, <<>>)}}
    IN  [state EXCEPT
            !.suggestions =
              <<(IF "long_function" \in issue_types
                 THEN <<"refactoring">> ELSE <<>>)
                \o (IF "high_complexity" \in issue_types
                       \/ "moderate_complexity" \in issue_types
                    THEN <<"simplification">> ELSE <<>>)
                \o (IF "deep_nesting" \in issue_types
                    THEN <<"structure">> ELSE <<>>)
                \o (IF "missing_docstring" \in issue_types
                    THEN <<"documentation">> ELSE <<>>)>>,
            !.improvement_iteration =
                <<GetOr(state.improvement_iteration, 0) + 1>>]

\* calculate_quality: the score in quarter points, passed from 8.0 on.
calculate_quality(state) ==
    LET avg_complexity == GetOr(state.avg_complexity, 0)
        SeverityCost(issue) ==
            IF issue.severity = "high" THEN 6
            ELSE IF issue.severity = "medium" THEN 3 ELSE 1
        LengthCost(func) ==
            IF func.num_lines > 100 THEN 4
            ELSE IF func.num_lines > 50 THEN 2 ELSE 0
        issues == GetOr(state.issues, <<>>)
        functions == GetOr(state.functions, <<>>)
        raw == 40 - SumOf([i \in DOMAIN issues |-> SeverityCost(issues[i])])
                  - (IF avg_complexity > 1000 THEN 8
                     ELSE IF avg_complexity > 700 THEN 4
                     ELSE IF avg_complexity > 500 THEN 2 ELSE 0)
                  - SumOf([i \in DOMAIN functions |-> LengthCost(functions[i])])
        score == IF raw < 0 THEN 0 ELSE IF raw > 40 THEN 40 ELSE raw
    IN  [state EXCEPT !.quality_score = <<score>>,
                      !.quality_passed = <<score >= 32>>]

ReviewToolNames ==
    {"extract_functions", "check_complexity", "detect_issues",
     "suggest_improvements", "calculate_quality"}

\* The call of a code review tool: it writes into the mapping it is handed
\* and returns that mapping.
ReviewCall(tool, state) ==
    CASE tool = "extract_functions" -> extract_functions(state)
      [] tool = "check_complexity" -> check_complexity(state)
      [] tool = "detect_issues" -> detect_issues(state)
      [] tool = "suggest_improvements" -> suggest_improvements(state)
      [] tool = "calculate_quality" -> calculate_quality(state)

\* The condition of the edge quality -> suggestions.
ReviewCondition ==
    "not state.get('quality_passed', False) and state.get('improvement_iteration', 0) < 5"

\* ------------------------------------------------------------------- tools
(* A registered callable is identified by what it does with the payload    *)
(* mapping it is handed.  ToolMutation is the payload mapping after the    *)
(* call (the tool may have written into it in place), ToolRaises tells     *)
(* whether the call raised, ToolResult is the returned value.              *)
\*   inc          returns a new mapping with x + 1, argument untouched
\*   identity     returns its argument untouched
\*   mutate       writes x + 1 into its argument and returns it
\*   fail         raises at once
\*   mutate_fail  writes x + 1 into its argument, then raises
Callables == {"inc", "identity", "mutate", "fail", "mutate_fail"}

ToolMutation(tool, p) ==
    IF tool \in ReviewToolNames THEN ReviewCall(tool, p)
    ELSE IF tool \in {"mutate", "mutate_fail"} THEN Payload(p.x + 1) ELSE p

ToolRaises(tool) == tool \in {"fail", "mutate_fail"}

ToolResult(tool, p) ==
    IF tool \in ReviewToolNames THEN ReviewCall(tool, p)
    ELSE IF tool \in {"inc", "mutate"} THEN Payload(p.x + 1) ELSE p


\* ------------------------------------------------------- tool registry state
\* ToolRegistry._tools: the registered names (its DOMAIN) and their callables.
VARIABLE tools

\* ------------------------------------------------- tool registry operations
(* The methods of ToolRegistry on a table (a function from the registered  *)
(* names to their callables).  A mutating method yields                    *)
(*   raised  the call ended in an exception, error is its text             *)
(*   table   the table once the call is over                               *)
\* A value handed to register that is not a function.
NotCallables == {"not_callable"}

\* callable(func)
callable(func) == func \in Callables

\* Variant: the binding is written before func is validated.
register_StoreFirst(table, name, func, override) ==
    IF name \in DOMAIN table /\ ~override
    THEN [raised |-> TRUE, error |-> ErrAlreadyRegistered(name), table |-> table]
    ELSE IF ~(func \in Callables)
    THEN [raised |-> TRUE, error |-> ErrNotCallable(name),
          table |-> [n \in DOMAIN table \cup {name} |->
                        IF n = name THEN func ELSE table[n]]]
    ELSE [raised |-> FALSE, error |-> NoError,
          table |-> [n \in DOMAIN table \cup {name} |->
                        IF n = name THEN func ELSE table[n]]]

\* Variant: the binding is not removed.
Unbind_Kept(table, name) == table

\* table[name] = func: the name is added or its binding replaced.
Bind(table, name, func) ==
    [n \in DOMAIN table \cup {name} |-> IF n = name THEN func ELSE table[n]]

\* del table[name]
Unbind(table, name) == [n \in DOMAIN table \ {name} |-> table[n]]

register(table, name, func, override) ==
    IF name \in DOMAIN table /\ ~override
    THEN [raised |-> TRUE, error |-> ErrAlreadyRegistered(name), table |-> table]
    ELSE IF ~callable(func)
    THEN [raised |-> TRUE, error |-> ErrNotCallable(name), table |-> table]
    ELSE [raised |-> FALSE, error |-> NoError, table |-> Bind(table, name, func)]

unregister(table, name) ==
    IF name \notin DOMAIN table
    THEN [raised |-> TRUE, error |-> ErrKeyNotFound(name), table |-> table]
    ELSE [raised |-> FALSE, error |-> NoError, table |-> Unbind(table, name)]

\* The table without any binding.
EmptyTable == [n \in {} |-> None]

clear(table) == [raised |-> FALSE, error |-> NoError, table |-> EmptyTable]

\* get: the callable, or the KeyError it raises.
get(table, name) ==
    IF name \notin DOMAIN table
    THEN [raised |-> TRUE, error |-> ErrKeyNotFound(name), value |-> None]
    ELSE [raised |-> FALSE, error |-> NoError, value |-> table[name]]

exists(table, name) == name \in DOMAIN table

\* list_tools: the keys of the table.
list_tools(table) == DOMAIN table

\* ------------------------------------------------------ condition evaluator
(* eval(condition, namespace) on the expressions the model draws from.     *)
(* The result is <<"bool", b>> or <<"int", n>>, the Python value, or       *)
(* <<"raise", exception>>.                                                 *)
PyEval(condition, state) ==
    CASE condition = "True" -> <<"bool", TRUE>>
      [] condition = "False" -> <<"bool", FALSE>>
      [] condition = "state['x'] >= 2" -> <<"bool", state.x >= 2>>
      [] condition = "state['x'] == 1" -> <<"bool", state.x = 1>>
      [] condition = "state['x']" -> <<"int", state.x>>
      [] condition = "state['missing']['deep']" -> <<"raise", "KeyError">>
      [] condition = "open('f')" -> <<"raise", "NameError">>
      [] condition = "state['x'] >=" -> <<"raise", "SyntaxError">>
      [] condition = ReviewCondition ->
            <<"bool", ~GetOr(state.quality_passed, FALSE)
                      /\ GetOr(state.improvement_iteration, 0) < 5>>
      [] OTHER -> <<"raise", "SyntaxError">>

\* bool(result): a boolean is itself, an integer is true when non-zero.
PyBool(r) == IF r[1] = "bool" THEN r[2] ELSE r[2] # 0

\* Variant: the except branch answers True.
_evaluate_condition_TrueOnError(condition, state) ==
    LET r == PyEval(condition, state)
    IN  IF r[1] = "raise" THEN TRUE ELSE PyBool(r)

\* GraphEngine._evaluate_condition: any exception yields False.
_evaluate_condition(condition, state) ==
    LET r == PyEval(condition, state)
    IN  IF r[1] = "raise" THEN FALSE ELSE PyBool(r)

\* ------------------------------------------------------- successor selection
\* GraphEngine._build_adjacency_map: from_node -> its edges, in supplied order.
_build_adjacency_map(edges) ==
    [n \in {edges[i].from_node : i \in DOMAIN edges} |->
        SelectSeq(edges, LAMBDA e : e.from_node = n)]

\* adjacency_map.get(current_node_name, [])
OutgoingEdges(current_node_name, adjacency_map) ==
    IF current_node_name \in DOMAIN adjacency_map
    THEN adjacency_map[current_node_name]
    ELSE <<>>

\* `if e.condition`: a condition that is None or empty does not count.
HasCondition(e) == Truthy(e.condition)

\* The for loop over conditional_edges: index of the first edge whose
\* condition evaluates true, 0 when the loop runs to its end.
RECURSIVE FirstSatisfied(_, _, _)
FirstSatisfied(conditional_edges, state, i) ==
    IF i > Len(conditional_edges) THEN 0
    ELSE IF _evaluate_condition(conditional_edges[i].condition, state) THEN i
    ELSE FirstSatisfied(conditional_edges, state, i + 1)

\* Variant: the edges are tried in declared order, an unconditional edge
\* or a satisfied conditional edge, whichever is declared first, is taken.
RECURSIVE FirstTakenInOrder(_, _, _)
FirstTakenInOrder(outgoing_edges, state, i) ==
    IF i > Len(outgoing_edges) THEN 0
    ELSE IF \/ ~HasCondition(outgoing_edges[i])
            \/ _evaluate_condition(outgoing_edges[i].condition, state)
    THEN i
    ELSE FirstTakenInOrder(outgoing_edges, state, i + 1)

_get_next_node_DeclaredOrder(current_node_name, adjacency_map, state) ==
    LET outgoing_edges == OutgoingEdges(current_node_name, adjacency_map)
        hit == FirstTakenInOrder(outgoing_edges, state, 1)
    IN  IF hit # 0 THEN outgoing_edges[hit].to_node ELSE None

\* Variant: when no conditional edge is satisfied and there is no
\* unconditional edge, the first outgoing edge is taken all the same.
_get_next_node_DefaultFirst(current_node_name, adjacency_map, state) ==
    LET outgoing_edges == OutgoingEdges(current_node_name, adjacency_map)
        conditional_edges == SelectSeq(outgoing_edges, LAMBDA e : HasCondition(e))
        unconditional_edges == SelectSeq(outgoing_edges, LAMBDA e : ~HasCondition(e))
        hit == FirstSatisfied(conditional_edges, state, 1)
    IN  IF outgoing_edges = <<>> THEN None
        ELSE IF hit # 0 THEN conditional_edges[hit].to_node
        ELSE IF unconditional_edges # <<>> THEN unconditional_edges[1].to_node
        ELSE outgoing_edges[1].to_node

\* Variant: the first outgoing edge is taken, whatever its condition.
_get_next_node_FirstEdge(current_node_name, adjacency_map, state) ==
    LET outgoing_edges == OutgoingEdges(current_node_name, adjacency_map)
    IN  IF outgoing_edges = <<>> THEN None ELSE outgoing_edges[1].to_node

\* GraphEngine._get_next_node
_get_next_node(current_node_name, adjacency_map, state) ==
    LET outgoing_edges == OutgoingEdges(current_node_name, adjacency_map)
        conditional_edges == SelectSeq(outgoing_edges, LAMBDA e : HasCondition(e))
        unconditional_edges == SelectSeq(outgoing_edges, LAMBDA e : ~HasCondition(e))
        hit == FirstSatisfied(conditional_edges, state, 1)
    IN  IF outgoing_edges = <<>> THEN None
        ELSE IF hit # 0 THEN conditional_edges[hit].to_node
        ELSE IF unconditional_edges # <<>> THEN unconditional_edges[1].to_node
        ELSE None


\* ---------------------------------------------------------- node execution
\* node_map = {node.name: node for node in graph.nodes}: a later node of the
\* same name replaces an earlier one.
NodeMap(nodes) ==
    [n \in {nodes[i].name : i \in DOMAIN nodes} |->
        nodes[CHOOSE i \in DOMAIN nodes :
                /\ nodes[i].name = n
                /\ \A j \in DOMAIN nodes : nodes[j].name = n => j <= i]]

\* ToolRegistry.get, as _execute_function_node uses it: the lookup raises
\* KeyError for a name that is not registered.
ToolRegistered(registry, name) == name \in DOMAIN registry

\* Variant: tool names are resolved against the registry as it was filled
\* at start-up, whatever has been registered or unregistered since.
_execute_function_node_AtStartup(node, state, registry) ==
    IF ~Truthy(node.tool_name)
    THEN [raised |-> TRUE, error |-> ErrNoToolName(node.name),
          result |-> state, after |-> state]
    ELSE IF node.tool_name \notin Callables
    THEN [raised |-> TRUE, error |-> ErrToolNotFound(node.tool_name),
          result |-> state, after |-> state]
    ELSE [raised |-> ToolRaises(node.tool_name),
          error |-> ErrToolRaised(node.tool_name),
          result |-> ToolResult(node.tool_name, state),
          after |-> ToolMutation(node.tool_name, state)]

(* GraphEngine._execute_function_node on the payload mapping `state`.      *)
(*   raised  the call ended in an exception, error is its text             *)
(*   result  the returned value                                            *)
(*   after   the payload mapping once the call is over: the tool is handed *)
(*           the mapping itself, so what it wrote into it stays written    *)
_execute_function_node(node, state, registry) ==
    IF ~Truthy(node.tool_name)
    THEN [raised |-> TRUE, error |-> ErrNoToolName(node.name),
          result |-> state, after |-> state]
    ELSE IF ~ToolRegistered(registry, node.tool_name)
    THEN [raised |-> TRUE, error |-> ErrToolNotFound(node.tool_name),
          result |-> state, after |-> state]
    ELSE LET tool == registry[node.tool_name]
         IN  [raised |-> ToolRaises(tool), error |-> ErrToolRaised(tool),
              result |-> ToolResult(tool, state),
              after |-> ToolMutation(tool, state)]

\* Variant: a node of any type that names a tool calls it.
NodeOutcome_ToolIfNamed(node, state, registry) ==
    IF node.node_type = FUNCTION \/ Truthy(node.tool_name)
    THEN _execute_function_node(node, state, registry)
    ELSE IF node.node_type \in {CONDITIONAL, START, END}
    THEN [raised |-> FALSE, error |-> NoError, result |-> state, after |-> state]
    ELSE [raised |-> TRUE, error |-> ErrUnknownNodeType(node.node_type),
          result |-> state, after |-> state]

\* The dispatch on node_type in _execute_node.
NodeOutcome(node, state, registry) ==
    IF node.node_type = FUNCTION
    THEN _execute_function_node(node, state, registry)
    ELSE IF node.node_type \in {CONDITIONAL, START, END}
    THEN [raised |-> FALSE, error |-> NoError, result |-> state, after |-> state]
    ELSE [raised |-> TRUE, error |-> ErrUnknownNodeType(node.node_type),
          result |-> state, after |-> state]

\* Variant: the failure log records the payload mapping as the tool left it.
FailureOutputState_Live(input_state, after) == after

\* The output_state of the log written by the except branch of _execute_node.
FailureOutputState(input_state, after) == input_state

\* Variant: input_state is the payload mapping itself, not a copy of it.
_execute_node_NoCopy(node, state, registry) ==
    LET out == NodeOutcome(node, state, registry)
    IN  IF out.raised
        THEN [node_name |-> node.name, timestamp |-> Stamped,
              input_state |-> out.after,
              output_state |-> FailureOutputState(out.after, out.after),
              success |-> FALSE, error |-> out.error]
        ELSE [node_name |-> node.name, timestamp |-> Stamped,
              input_state |-> out.after, output_state |-> out.result,
              success |-> TRUE, error |-> NoError]

(* GraphEngine._execute_node: the ExecutionLog it returns.  input_state is *)
(* the deep copy taken before the dispatch.                                *)
_execute_node(node, state, registry) ==
    LET input_state == state
        out == NodeOutcome(node, state, registry)
    IN  IF out.raised
        THEN [node_name |-> node.name, timestamp |-> Stamped,
              input_state |-> input_state,
              output_state |-> FailureOutputState(input_state, out.after),
              success |-> FALSE, error |-> out.error]
        ELSE [node_name |-> node.name, timestamp |-> Stamped,
              input_state |-> input_state, output_state |-> out.result,
              success |-> TRUE, error |-> NoError]

\* What the payload mapping held by run.current_state holds after the node.
StateAfterNode(node, state, registry) == NodeOutcome(node, state, registry).after

\* ------------------------------------------------------------------ execute
VARIABLES
    graph,              \* the GraphDefinition handed to execute
    initial_state,      \* the initial_state handed to execute
    max_iterations,     \* the max_iterations handed to execute
    run,                \* the Run
    pc,                 \* position in execute
    current_node_name,  \* local of execute
    visited_nodes,      \* local of execute
    next_node,          \* local of execute
    execution_log,      \* local of execute: the log of the node just executed
    exc                 \* the exception on its way to the except clause

\* ------------------------------------------- registry callers and ingress
VARIABLES
    registry_call,      \* the last call of a registry method and how it ended
    last_effect,        \* per name, the last successful registry operation
                        \* that affected it
    threads,            \* per thread, where it is inside ToolRegistry.register
    stored_graphs,      \* the rows of the graphs table, in insertion order
    response            \* the last response of POST /graph/create

\* --------------------------------------------- requests, runs table, runs
VARIABLES
    create_request,     \* the last request of POST /graph/create
    stored_runs,        \* the rows of the runs table, in insertion order
    run_response,       \* the last response of POST /graph/run
    runs,               \* per concurrent call of execute, its locals
    heap                \* the mappings and lists payloads are made of, by
                        \* object identity (used where aliasing matters)

ingressvars == <<stored_graphs, response, create_request>>
servicevars == <<stored_runs, run_response, runs>>

othervars ==
    <<registry_call, last_effect, threads, ingressvars, servicevars, heap>>

vars == <<tools, graph, initial_state, max_iterations, run, pc,
          current_node_name, visited_nodes, next_node, execution_log, exc,
          registry_call, last_effect, threads, stored_graphs, response,
          create_request, stored_runs, run_response, runs, heap>>

\* Names handed to the registry methods, and values handed as func.
RegNames == {"inc", "custom"}
RegFuncs == {"inc", "identity"} \cup NotCallables

\* Threads that call the registry.
Threads == {"t1", "t2"}

\* No registry method has been called yet.
NoCall ==
    [op |-> "none", name |-> None, func |-> None, override |-> FALSE,
     raised |-> FALSE, error |-> NoError]
NoEffect == [op |-> "none", func |-> None]
IdleThread ==
    [pc |-> "idle", name |-> None, func |-> None, override |-> FALSE,
     raised |-> FALSE, error |-> NoError]

\* No POST /graph/create has been answered yet.
NoResponse == [status_code |-> 0, graph_id |-> None, detail |-> NoError]

\* Nobody calls a registry method.
RegistryQuiet ==
    /\ registry_call = NoCall
    /\ last_effect = [n \in RegNames |-> NoEffect]
    /\ threads = [t \in Threads |-> IdleThread]

\* No POST /graph/create has been sent yet.
NoRequest ==
    [name |-> None, nodes |-> <<>>, edges |-> <<>>, entry_point |-> None]

\* No graph has been posted.
IngressQuiet ==
    /\ stored_graphs = <<>>
    /\ response = NoResponse
    /\ create_request = NoRequest

\* No POST /graph/run and no GET /graph/state has been answered yet.
NoRunResponse == [route |-> None, status_code |-> 0]

\* No run has been posted and no call of execute runs beside the one of
\* the engine variables.
ServiceQuiet ==
    /\ stored_runs = <<>>
    /\ run_response = NoRunResponse
    /\ runs = <<>>
    /\ heap = <<>>

\* execution_log before the first node has been executed.
NoLog ==
    [node_name |-> None, timestamp |-> NoTime, input_state |-> Payload(0),
     output_state |-> Payload(0), success |-> TRUE, error |-> NoError]

\* The values uuid4 gives to run_id, one per Run built.
RunIdPool == <<"r1", "r2", "r3", "r4">>

\* Variant: the run is built without current_node.
NewRun_NoCurrentNode(g, state, max_iter) ==
    [run_id |-> RunIdPool[1],
     graph_id |-> g.graph_id,
     status |-> RUNNING,
     current_node |-> None,
     current_state |-> [data |-> state, metadata |-> [graph_name |-> g.name]],
     execution_logs |-> <<>>,
     started_at |-> Stamped,
     completed_at |-> NoTime,
     error |-> NoError,
     iteration_count |-> 0,
     max_iterations |-> max_iter]

\* Variant: the run starts with one iteration counted.
NewRun_CountFromOne(g, state, max_iter) ==
    [run_id |-> RunIdPool[1],
     graph_id |-> g.graph_id,
     status |-> RUNNING,
     current_node |-> g.entry_point,
     current_state |-> [data |-> state, metadata |-> [graph_name |-> g.name]],
     execution_logs |-> <<>>,
     started_at |-> Stamped,
     completed_at |-> NoTime,
     error |-> NoError,
     iteration_count |-> 1,
     max_iterations |-> max_iter]

\* Run(...) as constructed at the start of execute.
NewRun(g, state, max_iter) ==
    [run_id |-> RunIdPool[1],
     graph_id |-> g.graph_id,
     status |-> RUNNING,
     current_node |-> g.entry_point,
     current_state |-> [data |-> state, metadata |-> [graph_name |-> g.name]],
     execution_logs |-> <<>>,
     started_at |-> Stamped,
     completed_at |-> NoTime,
     error |-> NoError,
     iteration_count |-> 0,
     max_iterations |-> max_iter]

\* Variant: the cap is tested with > instead of >=.
CapReached_Lax(iteration_count, max_iter) == iteration_count > max_iter

\* Variant: the cap tested is the default of Run.max_iterations, not the
\* max_iterations handed to execute.
CapReached_Default(iteration_count, max_iter) == iteration_count >= 10

\* Variant: the cap is met one re-entry early.
CapReached_Early(iteration_count, max_iter) == iteration_count + 1 >= max_iter

\* The safety check at the head of the loop.
CapReached(iteration_count, max_iter) == iteration_count >= max_iter

\* Variant: every transition counts as an iteration.
LoopsBack_Always(next, visited) == Truthy(next)

\* Variant: only a transition back to the node just executed counts.
LoopsBack_SelfOnly(next, visited) ==
    Truthy(next) /\ next \in visited /\ Cardinality(visited) = 1

\* `if next_node and next_node in visited_nodes`
LoopsBack(next, visited) == Truthy(next) /\ next \in visited


\* Variant: the except clause does not stamp completed_at.
FailedByException_NoStamp(r, e) == [r EXCEPT !.status = FAILED, !.error = e]

\* Lines 158-160: what the except clause makes of the run.
FailedByException(r, e) ==
    [r EXCEPT !.status = FAILED, !.error = e, !.completed_at = Stamped]

\* Lines 82-95: the while test, the iteration cap, the node lookup.
LoopHead ==
    /\ pc = "loop_head"
    /\ IF ~Truthy(current_node_name)
       THEN pc' = "mark_completed" /\ UNCHANGED <<run, exc>>
       ELSE IF CapReached(run.iteration_count, max_iterations)
       THEN pc' = "except" /\ exc' = ErrMaxIterations /\ UNCHANGED run
       ELSE IF current_node_name \notin DOMAIN NodeMap(graph.nodes)
       THEN pc' = "except" /\ exc' = ErrNodeNotFound(current_node_name)
            /\ UNCHANGED run
       ELSE /\ run' = [run EXCEPT !.current_node = current_node_name]
            /\ pc' = "execute_node"
            /\ UNCHANGED exc
    /\ UNCHANGED <<tools, graph, initial_state, max_iterations,
                   current_node_name, visited_nodes, next_node, execution_log>>
    /\ UNCHANGED othervars

\* Lines 99-107: execute the node on run.current_state and append its log.
ExecuteNode ==
    /\ pc = "execute_node"
    /\ LET node == NodeMap(graph.nodes)[current_node_name]
           log == _execute_node(node, run.current_state.data, tools)
       IN  /\ execution_log' = log
           /\ run' = [run EXCEPT
                  !.current_state.data =
                      StateAfterNode(node, run.current_state.data, tools),
                  !.execution_logs = Append(@, log)]
    /\ pc' = "check_log"
    /\ UNCHANGED <<tools, graph, initial_state, max_iterations,
                   current_node_name, visited_nodes, next_node, exc>>
    /\ UNCHANGED othervars

\* Variant: the new WorkflowState is built without metadata (the default,
\* an empty mapping: no graph_name).
ReplacedState_NoMetadata(current_state, output_state) ==
    [data |-> output_state, metadata |-> [graph_name |-> None]]

\* Variant: the state of the run is not replaced by the output of the node.
ReplacedState_Stale(current_state, output_state) == current_state

\* Lines 118-121: WorkflowState(data=output_state, metadata=the old metadata)
ReplacedState(current_state, output_state) ==
    [data |-> output_state, metadata |-> current_state.metadata]

\* Variant: no break, the loop body goes on after a failed log.
AfterBreak_Continue == "track_visited"

\* Where `break` at line 115 leaves control: the statement after the loop.
AfterBreak == "mark_completed"

\* Lines 109-121: a failed log ends the loop, a successful one replaces the state.
CheckLog ==
    /\ pc = "check_log"
    /\ IF ~execution_log.success
       THEN /\ run' = [run EXCEPT !.status = FAILED,
                                  !.error = execution_log.error,
                                  !.completed_at = Stamped]
            /\ pc' = AfterBreak
       ELSE /\ run' = [run EXCEPT !.current_state =
                          ReplacedState(@, execution_log.output_state)]
            /\ pc' = "track_visited"
    /\ UNCHANGED <<tools, graph, initial_state, max_iterations,
                   current_node_name, visited_nodes, next_node, execution_log, exc>>
    /\ UNCHANGED othervars

\* Line 124
TrackVisited ==
    /\ pc = "track_visited"
    /\ visited_nodes' = visited_nodes \cup {current_node_name}
    /\ pc' = "select_next"
    /\ UNCHANGED <<tools, graph, initial_state, max_iterations, run,
                   current_node_name, next_node, execution_log, exc>>
    /\ UNCHANGED othervars

\* Lines 126-131
SelectNext ==
    /\ pc = "select_next"
    /\ next_node' = _get_next_node(current_node_name,
                                   _build_adjacency_map(graph.edges),
                                   run.current_state.data)
    /\ pc' = "count_iteration"
    /\ UNCHANGED <<tools, graph, initial_state, max_iterations, run,
                   current_node_name, visited_nodes, execution_log, exc>>
    /\ UNCHANGED othervars

\* Lines 133-136
CountIteration ==
    /\ pc = "count_iteration"
    /\ IF LoopsBack(next_node, visited_nodes)
       THEN run' = [run EXCEPT !.iteration_count = @ + 1]
       ELSE UNCHANGED run
    /\ pc' = "move_next"
    /\ UNCHANGED <<tools, graph, initial_state, max_iterations,
                   current_node_name, visited_nodes, next_node, execution_log, exc>>
    /\ UNCHANGED othervars

\* Lines 138-144
MoveNext ==
    /\ pc = "move_next"
    /\ current_node_name' = next_node
    /\ pc' = IF ~Truthy(next_node) THEN "mark_completed" ELSE "loop_head"
    /\ UNCHANGED <<tools, graph, initial_state, max_iterations, run,
                   visited_nodes, next_node, execution_log, exc>>
    /\ UNCHANGED othervars

\* Lines 146-148 and the return at line 163
MarkCompleted ==
    /\ pc = "mark_completed"
    /\ run' = [run EXCEPT !.status = COMPLETED, !.completed_at = Stamped]
    /\ pc' = "done"
    /\ UNCHANGED <<tools, graph, initial_state, max_iterations,
                   current_node_name, visited_nodes, next_node, execution_log, exc>>
    /\ UNCHANGED othervars

\* Variant: without the except clause the exception leaves execute.
Caught_Reraised == "raised"

\* Where the except clause of lines 156-161 leaves control: at the return.
Caught == "done"

\* Lines 156-161 and the return at line 163
HandleException ==
    /\ pc = "except"
    /\ run' = FailedByException(run, exc)
    /\ pc' = Caught
    /\ UNCHANGED <<tools, graph, initial_state, max_iterations,
                   current_node_name, visited_nodes, next_node, execution_log, exc>>
    /\ UNCHANGED othervars

\* ------------------------------------------------------------------ inputs
NodeNames == {"A", "B"}
\* A name no node of a generated graph has.
UnknownName == "Z"

\* Conditions on the edges of generated graphs.
EngineConditions ==
    {None, "True", "state['x'] >= 2", "state['missing']['deep']"}

\* What a node of a generated graph is: its node_type and tool_name.
NodeConfigs ==
    {[node_type |-> FUNCTION, tool_name |-> t] :
        t \in {"inc", "fail", "mutate_fail", None}}
    \cup {[node_type |-> CONDITIONAL, tool_name |-> None]}

NodeLists ==
    {<<[name |-> "A", node_type |-> a.node_type, tool_name |-> a.tool_name],
       [name |-> "B", node_type |-> b.node_type, tool_name |-> b.tool_name]>> :
        a \in NodeConfigs, b \in NodeConfigs}

EdgeSet ==
    [from_node : NodeNames, to_node : NodeNames \cup {UnknownName},
     condition : EngineConditions]

EdgeLists == UNION {[1..n -> EdgeSet] : n \in 0..MaxEdges}

Graphs ==
    [graph_id : {"g1"}, name : {"wf"}, nodes : NodeLists, edges : EdgeLists,
     entry_point : {"A", UnknownName}]

\* The registry as the application fills it at start-up.
InitialTools == [t \in Callables |-> t]

Init ==
    /\ tools = InitialTools
    /\ graph \in Graphs
    /\ initial_state \in {Payload(n) : n \in 0..MaxX0}
    /\ max_iterations \in 0..MaxIter
    /\ run = NewRun(graph, initial_state, max_iterations)
    /\ pc = "loop_head"
    /\ current_node_name = graph.entry_point
    /\ visited_nodes = {}
    /\ next_node = None
    /\ execution_log = NoLog
    /\ exc = NoError
    /\ RegistryQuiet
    /\ IngressQuiet
    /\ ServiceQuiet

Next ==
    \/ LoopHead
    \/ ExecuteNode
    \/ CheckLog
    \/ TrackVisited
    \/ SelectNext
    \/ CountIteration
    \/ MoveNext
    \/ MarkCompleted
    \/ HandleException

Spec == Init /\ [][Next]_vars

(* execute is one coroutine of straight-line code between its awaits, and  *)
(* the only awaits are tool calls: as long as every tool call returns or   *)
(* raises, a step that can be taken is taken.  Negative values of          *)
(* max_iterations are drawn as well.                                       *)
MinIter == -1

InitAnyCap ==
    /\ tools = InitialTools
    /\ graph \in Graphs
    /\ initial_state \in {Payload(n) : n \in 0..MaxX0}
    /\ max_iterations \in MinIter..MaxIter
    /\ run = NewRun(graph, initial_state, max_iterations)
    /\ pc = "loop_head"
    /\ current_node_name = graph.entry_point
    /\ visited_nodes = {}
    /\ next_node = None
    /\ execution_log = NoLog
    /\ exc = NoError
    /\ RegistryQuiet
    /\ IngressQuiet
    /\ ServiceQuiet

SpecFair == InitAnyCap /\ [][Next]_vars /\ WF_vars(Next)


\* ------------------------------------------ inputs of successor selection
\* max_iterations when the caller passes none (execute's default).
DefaultMaxIterations == 10

\* Conditions on the edges handed to successor selection: absent, empty,
\* a literal, comparisons and a bare value of the payload, and expressions
\* whose evaluation raises (KeyError, NameError, SyntaxError).
SelConditions ==
    {None, "", "True", "state['x'] == 1", "state['x']",
     "state['missing']['deep']", "open('f')", "state['x'] >="}

SelEdgeSet ==
    [from_node : {"A"}, to_node : {"B", "C"}, condition : SelConditions]

SelEdgeLists == UNION {[1..n -> SelEdgeSet] : n \in 0..MaxSelEdges}

\* A START node A whose outgoing edges are drawn, and two END nodes B and C.
SelNodes ==
    <<[name |-> "A", node_type |-> START, tool_name |-> None],
      [name |-> "B", node_type |-> END, tool_name |-> None],
      [name |-> "C", node_type |-> END, tool_name |-> None]>>

SelGraphs ==
    [graph_id : {"g1"}, name : {"wf"}, nodes : {SelNodes}, edges : SelEdgeLists,
     entry_point : {"A"}]

InitSel ==
    /\ tools = InitialTools
    /\ graph \in SelGraphs
    /\ initial_state \in {Payload(n) : n \in 0..MaxSelX}
    /\ max_iterations = DefaultMaxIterations
    /\ run = NewRun(graph, initial_state, max_iterations)
    /\ pc = "loop_head"
    /\ current_node_name = graph.entry_point
    /\ visited_nodes = {}
    /\ next_node = None
    /\ execution_log = NoLog
    /\ exc = NoError
    /\ RegistryQuiet
    /\ IngressQuiet
    /\ ServiceQuiet

NextSel ==
    \/ LoopHead
    \/ ExecuteNode
    \/ CheckLog
    \/ TrackVisited
    \/ SelectNext
    \/ CountIteration
    \/ MoveNext
    \/ MarkCompleted

SpecSel == InitSel /\ [][NextSel]_vars


\* -------------------------------------------------------- inputs of chains
\* The names of the nodes of a chain, in chain order.
ChainNames == <<"A", "B", "C", "D", "E">>

\* The tool_name of a node of a chain: a registered tool, a name that was
\* never registered, or none.
ChainToolNames == {"identity", "inc", "ghost", None}

\* The chain of n FUNCTION nodes, the i-th with tool_name t[i].
ChainNodes(n, t) ==
    [i \in 1..n |->
        [name |-> ChainNames[i], node_type |-> FUNCTION, tool_name |-> t[i]]]

\* Its n - 1 unconditional edges.
ChainEdges(n) ==
    [i \in 1..(n - 1) |->
        [from_node |-> ChainNames[i], to_node |-> ChainNames[i + 1],
         condition |-> None]]

\* Nothing, or one edge from the last node of the chain back into it.
BackEdges(n) ==
    {<<>>} \cup
    {<<[from_node |-> ChainNames[n], to_node |-> ChainNames[k], condition |-> c]>> :
        k \in 1..n, c \in {None, "state['x'] >= 2"}}

\* The chains of n nodes, alone or closed by a back edge.
ChainGraphsOf(n) ==
    {[graph_id |-> "g1", name |-> "wf", nodes |-> ChainNodes(n, t),
      edges |-> ChainEdges(n) \o b, entry_point |-> "A"] :
        t \in [1..n -> ChainToolNames], b \in BackEdges(n)}

ChainGraphs == UNION {ChainGraphsOf(n) : n \in 1..MaxChain}

\* The registry when execute is called: as filled at start-up, or after
\* "inc" has been unregistered since.
ChainRegistries == {InitialTools, unregister(InitialTools, "inc").table}

InitChain ==
    /\ tools \in ChainRegistries
    /\ graph \in ChainGraphs
    /\ initial_state \in {Payload(n) : n \in 0..MaxX0}
    /\ max_iterations \in 0..MaxIter
    /\ run = NewRun(graph, initial_state, max_iterations)
    /\ pc = "loop_head"
    /\ current_node_name = graph.entry_point
    /\ visited_nodes = {}
    /\ next_node = None
    /\ execution_log = NoLog
    /\ exc = NoError
    /\ RegistryQuiet
    /\ IngressQuiet
    /\ ServiceQuiet

SpecChain == InitChain /\ [][Next]_vars


\* ------------------------------------------------- inputs of node types
\* The chain A -> B over nodes of every type, with or without a tool_name.
TypedGraphs ==
    {[graph_id |-> "g1", name |-> "wf",
      nodes |-> <<[name |-> "A", node_type |-> a.node_type, tool_name |-> a.tool_name],
                  [name |-> "B", node_type |-> b.node_type, tool_name |-> b.tool_name]>>,
      edges |-> ChainEdges(2), entry_point |-> "A"] :
        a, b \in [node_type : {FUNCTION, CONDITIONAL, START, END},
                  tool_name : {None, "inc", "ghost"}]}

\* The registry is empty or as filled at start-up.
InitTyped ==
    /\ tools \in {EmptyTable, InitialTools}
    /\ graph \in TypedGraphs
    /\ initial_state \in {Payload(n) : n \in 0..MaxX0}
    /\ max_iterations \in 0..MaxIter
    /\ run = NewRun(graph, initial_state, max_iterations)
    /\ pc = "loop_head"
    /\ current_node_name = graph.entry_point
    /\ visited_nodes = {}
    /\ next_node = None
    /\ execution_log = NoLog
    /\ exc = NoError
    /\ RegistryQuiet
    /\ IngressQuiet
    /\ ServiceQuiet

SpecTyped == InitTyped /\ [][Next]_vars


\* ------------------------------------------------------------ cancellation
(* The caller cancels the task that runs execute.  asyncio delivers the    *)
(* cancellation as a CancelledError raised at the await the task is        *)
(* suspended in, and the only awaits that suspend execute are the tool     *)
(* calls of lines 257 and 260.  CancelledError derives from BaseException, *)
(* so neither `except Exception` of _execute_node (line 213) nor that of   *)
(* execute (line 156) catches it: it leaves execute.  The tool may or may  *)
(* not have written into the payload mapping by then.                      *)
CancelledInTool ==
    /\ pc = "execute_node"
    /\ LET node == NodeMap(graph.nodes)[current_node_name]
       IN  /\ node.node_type = FUNCTION
           /\ Truthy(node.tool_name)
           /\ ToolRegistered(tools, node.tool_name)
           /\ \E data \in {run.current_state.data,
                            ToolMutation(tools[node.tool_name],
                                         run.current_state.data)} :
                 run' = [run EXCEPT !.current_state.data = data]
    /\ pc' = "cancelled"
    /\ UNCHANGED <<tools, graph, initial_state, max_iterations,
                   current_node_name, visited_nodes, next_node, execution_log, exc>>
    /\ UNCHANGED othervars

NextCancel ==
    \/ LoopHead
    \/ ExecuteNode
    \/ CancelledInTool
    \/ CheckLog
    \/ TrackVisited
    \/ SelectNext
    \/ CountIteration
    \/ MoveNext
    \/ MarkCompleted
    \/ HandleException

SpecCancel == InitChain /\ [][NextCancel]_vars


\* ------------------------------------------------ calls of the registry
\* No execute is in progress.
NoGraph ==
    [graph_id |-> None, name |-> None, nodes |-> <<>>, edges |-> <<>>,
     entry_point |-> None]

EngineIdle ==
    /\ graph = NoGraph
    /\ initial_state = Payload(0)
    /\ max_iterations = DefaultMaxIterations
    /\ run = [NewRun(NoGraph, Payload(0), DefaultMaxIterations)
                 EXCEPT !.status = PENDING, !.started_at = NoTime]
    /\ pc = "idle"
    /\ current_node_name = None
    /\ visited_nodes = {}
    /\ next_node = None
    /\ execution_log = NoLog
    /\ exc = NoError

enginevars == <<graph, initial_state, max_iterations, run, pc,
                current_node_name, visited_nodes, next_node, execution_log, exc>>

\* One caller calls register / unregister / clear, one call after the other.
RegisterCall ==
    \E n \in RegNames, f \in RegFuncs, o \in BOOLEAN :
        LET r == register(tools, n, f, o)
        IN  /\ tools' = r.table
            /\ registry_call' = [op |-> "register", name |-> n, func |-> f,
                                 override |-> o, raised |-> r.raised,
                                 error |-> r.error]
            /\ last_effect' = IF r.raised THEN last_effect
                              ELSE [last_effect EXCEPT
                                       ![n] = [op |-> "register", func |-> f]]
            /\ UNCHANGED <<enginevars, threads, ingressvars, heap, servicevars>>

UnregisterCall ==
    \E n \in RegNames :
        LET r == unregister(tools, n)
        IN  /\ tools' = r.table
            /\ registry_call' = [op |-> "unregister", name |-> n, func |-> None,
                                 override |-> FALSE, raised |-> r.raised,
                                 error |-> r.error]
            /\ last_effect' = IF r.raised THEN last_effect
                              ELSE [last_effect EXCEPT
                                       ![n] = [op |-> "unregister", func |-> None]]
            /\ UNCHANGED <<enginevars, threads, ingressvars, heap, servicevars>>

ClearCall ==
    LET r == clear(tools)
    IN  /\ tools' = r.table
        /\ registry_call' = [op |-> "clear", name |-> None, func |-> None,
                             override |-> FALSE, raised |-> r.raised,
                             error |-> r.error]
        /\ last_effect' = [n \in RegNames |-> [op |-> "clear", func |-> None]]
        /\ UNCHANGED <<enginevars, threads, ingressvars, heap, servicevars>>

\* The registry as constructed: ToolRegistry.__new__ sets _tools = {}.
InitRegistry ==
    /\ tools = EmptyTable
    /\ EngineIdle
    /\ RegistryQuiet
    /\ IngressQuiet
    /\ ServiceQuiet

SpecRegistry ==
    InitRegistry /\ [][RegisterCall \/ UnregisterCall \/ ClearCall]_vars


\* ------------------------------------ the registry changes during a run
\* A run on a chain of two "inc" nodes, alone or closed by a back edge,
\* while a caller registers (with or without override) and unregisters.
InitLive ==
    /\ tools = InitialTools
    /\ graph \in {g \in ChainGraphsOf(2) :
                    \A i \in DOMAIN g.nodes : g.nodes[i].tool_name = "inc"}
    /\ initial_state \in {Payload(n) : n \in 0..MaxX0}
    /\ max_iterations = MaxIter
    /\ run = NewRun(graph, initial_state, max_iterations)
    /\ pc = "loop_head"
    /\ current_node_name = graph.entry_point
    /\ visited_nodes = {}
    /\ next_node = None
    /\ execution_log = NoLog
    /\ exc = NoError
    /\ RegistryQuiet
    /\ IngressQuiet
    /\ ServiceQuiet

SpecLive == InitLive /\ [][Next \/ RegisterCall \/ UnregisterCall]_vars


\* ------------------------------------------------- POST /graph/create
\* The nodes and edges of create requests.
ReqNodeSet ==
    {[name |-> m, node_type |-> FUNCTION, tool_name |-> "identity"] :
        m \in NodeNames}

ReqNodeLists == UNION {[1..n -> ReqNodeSet] : n \in 0..MaxReqNodes}

\* No edge, or one edge between names that may or may not be nodes.
ReqEdgeLists ==
    {<<>>} \cup
    {<<[from_node |-> f, to_node |-> t, condition |-> None]>> :
        f \in NodeNames \cup {UnknownName}, t \in NodeNames \cup {UnknownName}}

CreateGraphRequests ==
    [name : {"wf"}, nodes : ReqNodeLists, edges : ReqEdgeLists,
     entry_point : NodeNames \cup {UnknownName}]

\* uuid4 identifiers, in the order they are generated.
GraphIdPool == <<"g1", "g2", "g3", "g4">>

\* node_names = {node.name for node in request.nodes}
RequestNodeNames(request) ==
    {request.nodes[i].name : i \in DOMAIN request.nodes}

\* The first edge of the request with an end that is no node.
BadEdges(request) ==
    {i \in DOMAIN request.edges :
        \/ request.edges[i].from_node \notin RequestNodeNames(request)
        \/ request.edges[i].to_node \notin RequestNodeNames(request)}

FirstBadEdge(request) ==
    request.edges[CHOOSE i \in BadEdges(request) :
                      \A j \in BadEdges(request) : i <= j]

\* Variant: only the from_node of an edge is checked.
RequestError_FromOnly(request) ==
    IF request.entry_point \notin RequestNodeNames(request)
    THEN ErrEntryPoint(request.entry_point)
    ELSE IF \A i \in DOMAIN request.edges :
               request.edges[i].from_node \in RequestNodeNames(request)
    THEN NoError
    ELSE ErrEdgeFrom(FirstBadEdge(request).from_node)

\* The checks of create_graph: the detail of the 400 response, or NoError.
RequestError(request) ==
    IF request.entry_point \notin RequestNodeNames(request)
    THEN ErrEntryPoint(request.entry_point)
    ELSE IF BadEdges(request) = {}
    THEN NoError
    ELSE IF FirstBadEdge(request).from_node \notin RequestNodeNames(request)
    THEN ErrEdgeFrom(FirstBadEdge(request).from_node)
    ELSE ErrEdgeTo(FirstBadEdge(request).to_node)

\* GraphDefinition(...) of lines 80-86 with its generated graph_id.
NewGraph(request, id) ==
    [graph_id |-> id, name |-> request.name, nodes |-> request.nodes,
     edges |-> request.edges, entry_point |-> request.entry_point]

\* SQLiteStorage.save_graph: one more row in the graphs table.
save_graph(rows, g) == Append(rows, g)

\* create_graph, answered with 201 and the graph_id or with 400.
CreateGraph ==
    \E request \in CreateGraphRequests :
        /\ Len(stored_graphs) < MaxGraphs
        /\ create_request' = request
        /\ IF RequestError(request) # NoError
           THEN /\ response' = [status_code |-> 400, graph_id |-> None,
                                detail |-> RequestError(request)]
                /\ UNCHANGED stored_graphs
           ELSE LET id == GraphIdPool[Len(stored_graphs) + 1]
                IN  /\ stored_graphs' =
                          save_graph(stored_graphs, NewGraph(request, id))
                    /\ response' = [status_code |-> 201, graph_id |-> id,
                                    detail |-> NoError]
        /\ UNCHANGED <<tools, enginevars, registry_call, last_effect, threads,
                       servicevars, heap>>

InitIngress ==
    /\ tools = InitialTools
    /\ EngineIdle
    /\ RegistryQuiet
    /\ IngressQuiet
    /\ ServiceQuiet

SpecIngress == InitIngress /\ [][CreateGraph]_vars


\* ----------------------------------------------- json and iso-8601 text
\* The decimal digits of a natural number, most significant first.
RECURSIVE Digits(_)
Digits(n) == IF n < 10 THEN <<n>> ELSE Append(Digits(n \div 10), n % 10)

\* The number a digit string denotes.
RECURSIVE DigitsValue(_)
DigitsValue(d) ==
    IF Len(d) = 0 THEN 0
    ELSE 10 * DigitsValue(SubSeq(d, 1, Len(d) - 1)) + d[Len(d)]

\* json.dumps / json.loads of a payload dict
\* (an int is written as its sign and its decimal digits)
dumps_payload(p) ==
    [x |-> IF p.x < 0 THEN [sign |-> "-", digits |-> Digits(0 - p.x)]
           ELSE [sign |-> "", digits |-> Digits(p.x)]]

loads_payload(t) ==
    [x |-> IF t.x.sign = "-" THEN 0 - DigitsValue(t.x.digits)
           ELSE DigitsValue(t.x.digits)]

\* json.dumps / json.loads of an Optional[str]
dumps_optional(v) == IF v = NoError THEN <<"null">> ELSE <<"str", v>>

loads_optional(t) == IF t = <<"null">> THEN NoError ELSE t[2]

\* datetime.isoformat / datetime.fromisoformat of the one instant of the model
\* and, for an Optional[datetime], `x.isoformat() if x else None` and
\* `fromisoformat(x) if x else None`
isoformat(t) == IF t = Stamped THEN "2024-01-01T00:00:00" ELSE None

fromisoformat(t) == IF t = "2024-01-01T00:00:00" THEN Stamped ELSE NoTime


\* ---------------------------------------------------------- the runs table
\* The dict save_run builds of one ExecutionLog, as json text.
dumps_log(log) ==
    [node_name |-> log.node_name,
     timestamp |-> isoformat(log.timestamp),
     input_state |-> dumps_payload(log.input_state),
     output_state |-> dumps_payload(log.output_state),
     success |-> IF log.success THEN "true" ELSE "false",
     error |-> dumps_optional(log.error)]

\* ExecutionLog(**log) of one element of json.loads(row['execution_logs'])
loads_log(t) ==
    [node_name |-> t.node_name,
     timestamp |-> fromisoformat(t.timestamp),
     input_state |-> loads_payload(t.input_state),
     output_state |-> loads_payload(t.output_state),
     success |-> t.success = "true",
     error |-> loads_optional(t.error)]

\* The row save_run inserts.
RunRow(r, logs) ==
    [run_id |-> r.run_id,
     graph_id |-> r.graph_id,
     status |-> r.status,
     current_node |-> r.current_node,
     current_state |-> [data |-> dumps_payload(r.current_state.data),
                        metadata |-> r.current_state.metadata],
     execution_logs |-> [i \in DOMAIN logs |-> dumps_log(logs[i])],
     started_at |-> isoformat(r.started_at),
     completed_at |-> isoformat(r.completed_at),
     error |-> r.error,
     iteration_count |-> r.iteration_count,
     max_iterations |-> r.max_iterations]

\* Variant: only the last log of the run is written.
save_run_LastLogOnly(rows, r) ==
    Append(rows, RunRow(r, IF Len(r.execution_logs) = 0 THEN <<>>
                           ELSE <<r.execution_logs[Len(r.execution_logs)]>>))

\* SQLiteStorage.save_run: one more row in the runs table.
save_run(rows, r) == Append(rows, RunRow(r, r.execution_logs))

\* SQLiteStorage.get_run: the Run rebuilt from its row, or None (here a
\* Run whose run_id is None).
get_run(rows, id) ==
    IF \A i \in DOMAIN rows : rows[i].run_id # id THEN [run_id |-> None]
    ELSE LET row == rows[CHOOSE i \in DOMAIN rows :
                            /\ rows[i].run_id = id
                            /\ \A j \in 1..(i - 1) : rows[j].run_id # id]
         IN  [run_id |-> row.run_id,
              graph_id |-> row.graph_id,
              status |-> row.status,
              current_node |-> row.current_node,
              current_state |->
                  [data |-> loads_payload(row.current_state.data),
                   metadata |-> row.current_state.metadata],
              execution_logs |->
                  [i \in DOMAIN row.execution_logs |->
                      loads_log(row.execution_logs[i])],
              started_at |-> fromisoformat(row.started_at),
              completed_at |-> fromisoformat(row.completed_at),
              error |-> row.error,
              iteration_count |-> row.iteration_count,
              max_iterations |-> row.max_iterations]

\* SQLiteStorage.get_graph: the graph with a graph_id, or None.
get_graph(rows, id) ==
    IF \E i \in DOMAIN rows : rows[i].graph_id = id
    THEN rows[CHOOSE i \in DOMAIN rows : rows[i].graph_id = id]
    ELSE NoGraph


\* ---------------------------------------- POST /graph/run, GET /graph/state
\* The graphs stored before the first run is posted: a chain of two tools,
\* a node that loops on itself, and a node with a tool that raises.
ServiceGraphs ==
    << [graph_id |-> "g1", name |-> "chain",
        nodes |-> ChainNodes(2, <<"inc", "identity">>),
        edges |-> ChainEdges(2), entry_point |-> "A"],
       [graph_id |-> "g2", name |-> "loop",
        nodes |-> ChainNodes(1, <<"inc">>),
        edges |-> <<[from_node |-> "A", to_node |-> "A", condition |-> None]>>,
        entry_point |-> "A"],
       [graph_id |-> "g3", name |-> "raise",
        nodes |-> ChainNodes(2, <<"fail", "inc">>),
        edges |-> ChainEdges(2), entry_point |-> "A"] >>

\* run_graph up to the call of execute: 404 for an unknown graph, else the
\* Run of execute is built, with max_iterations = 10.
RunGraphBegin ==
    \E id \in {"g1", "g2", "g3", "g9"}, x0 \in 0..MaxX0 :
        /\ pc = "idle"
        /\ Len(stored_runs) < MaxRuns
        /\ IF get_graph(stored_graphs, id).graph_id = None
           THEN /\ run_response' = [route |-> "run", status_code |-> 404,
                                    detail |-> <<"Graph with ID not found", id>>]
                /\ UNCHANGED enginevars
           ELSE LET g == get_graph(stored_graphs, id)
                IN  /\ graph' = g
                    /\ initial_state' = Payload(x0)
                    /\ max_iterations' = DefaultMaxIterations
                    /\ run' = [NewRun(g, Payload(x0), DefaultMaxIterations)
                                 EXCEPT !.run_id = RunIdPool[Len(stored_runs) + 1]]
                    /\ pc' = "loop_head"
                    /\ current_node_name' = g.entry_point
                    /\ visited_nodes' = {}
                    /\ next_node' = None
                    /\ execution_log' = NoLog
                    /\ exc' = NoError
                    /\ UNCHANGED run_response
        /\ UNCHANGED <<tools, registry_call, last_effect, threads, ingressvars, heap,
                       stored_runs, runs>>

\* run_graph after execute has returned: save_run, then the 200 response.
RunGraphEnd ==
    /\ pc = "done"
    /\ stored_runs' = save_run(stored_runs, run)
    /\ run_response' =
           [route |-> "run", status_code |-> 200,
            run_id |-> run.run_id,
            status |-> run.status,
            final_state |-> run.current_state.data,
            execution_logs |->
                [i \in DOMAIN run.execution_logs |->
                    [run.execution_logs[i] EXCEPT
                        !.timestamp = isoformat(run.execution_logs[i].timestamp)]],
            iterations_completed |-> run.iteration_count]
    /\ pc' = "idle"
    /\ UNCHANGED <<tools, graph, initial_state, max_iterations, run,
                   current_node_name, visited_nodes, next_node, execution_log, exc>>
    /\ UNCHANGED <<registry_call, last_effect, threads, ingressvars, heap, runs>>

\* get_run_state: 404 for an unknown run, else the fields of the stored run.
\* The request is served whenever it arrives, also while a run executes.
GetRunState ==
    \E id \in {RunIdPool[1], RunIdPool[2], "r9"} :
        /\ LET r == get_run(stored_runs, id)
           IN  run_response' =
                   IF r.run_id = None
                   THEN [route |-> "state", status_code |-> 404,
                         detail |-> <<"Run with ID not found", id>>]
                   ELSE [route |-> "state", status_code |-> 200,
                         run_id |-> r.run_id,
                         status |-> r.status,
                         current_node |-> r.current_node,
                         current_state |-> r.current_state.data,
                         iterations_completed |-> r.iteration_count,
                         started_at |-> isoformat(r.started_at),
                         completed_at |-> isoformat(r.completed_at)]
        /\ UNCHANGED <<tools, enginevars, registry_call, last_effect, threads,
                       ingressvars, heap, stored_runs, runs>>

InitService ==
    /\ tools = InitialTools
    /\ EngineIdle
    /\ RegistryQuiet
    /\ stored_graphs = ServiceGraphs
    /\ response = NoResponse
    /\ create_request = NoRequest
    /\ ServiceQuiet

NextService ==
    \/ RunGraphBegin
    \/ Next
    \/ RunGraphEnd
    \/ GetRunState

SpecService == InitService /\ [][NextService]_vars


\* ------------------------------------------ two calls of execute at once
(* Every call of execute has its own locals (run, current_node_name,       *)
(* visited_nodes, ...); the engine object holds the registry only.  A call *)
(* is a record of its locals, and EngineStep is one step of it: the step   *)
(* the actions LoopHead .. HandleException take on the engine variables.   *)
StartLocals(id, g, state, max_iter) ==
    [graph |-> g,
     initial_state |-> state,
     max_iterations |-> max_iter,
     run |-> [NewRun(g, state, max_iter) EXCEPT !.run_id = id],
     pc |-> "loop_head",
     current_node_name |-> g.entry_point,
     visited_nodes |-> {},
     next_node |-> None,
     execution_log |-> NoLog,
     exc |-> NoError]

EngineStep(L, registry) ==
    CASE L.pc = "loop_head" ->
            IF ~Truthy(L.current_node_name)
            THEN [L EXCEPT !.pc = "mark_completed"]
            ELSE IF CapReached(L.run.iteration_count, L.max_iterations)
            THEN [L EXCEPT !.pc = "except", !.exc = ErrMaxIterations]
            ELSE IF L.current_node_name \notin DOMAIN NodeMap(L.graph.nodes)
            THEN [L EXCEPT !.pc = "except",
                           !.exc = ErrNodeNotFound(L.current_node_name)]
            ELSE [L EXCEPT !.run.current_node = L.current_node_name,
                           !.pc = "execute_node"]
      [] L.pc = "execute_node" ->
            LET node == NodeMap(L.graph.nodes)[L.current_node_name]
                log == _execute_node(node, L.run.current_state.data, registry)
            IN  [L EXCEPT
                   !.execution_log = log,
                   !.run.current_state.data =
                       StateAfterNode(node, L.run.current_state.data, registry),
                   !.run.execution_logs = Append(@, log),
                   !.pc = "check_log"]
      [] L.pc = "check_log" ->
            IF ~L.execution_log.success
            THEN [L EXCEPT !.run.status = FAILED,
                           !.run.error = L.execution_log.error,
                           !.run.completed_at = Stamped,
                           !.pc = AfterBreak]
            ELSE [L EXCEPT !.run.current_state =
                               ReplacedState(@, L.execution_log.output_state),
                           !.pc = "track_visited"]
      [] L.pc = "track_visited" ->
            [L EXCEPT !.visited_nodes = @ \cup {L.current_node_name},
                      !.pc = "select_next"]
      [] L.pc = "select_next" ->
            [L EXCEPT !.next_node =
                          _get_next_node(L.current_node_name,
                                         _build_adjacency_map(L.graph.edges),
                                         L.run.current_state.data),
                      !.pc = "count_iteration"]
      [] L.pc = "count_iteration" ->
            IF LoopsBack(L.next_node, L.visited_nodes)
            THEN [L EXCEPT !.run.iteration_count = @ + 1, !.pc = "move_next"]
            ELSE [L EXCEPT !.pc = "move_next"]
      [] L.pc = "move_next" ->
            [L EXCEPT !.current_node_name = L.next_node,
                      !.pc = IF ~Truthy(L.next_node) THEN "mark_completed"
                             ELSE "loop_head"]
      [] L.pc = "mark_completed" ->
            [L EXCEPT !.run.status = COMPLETED,
                      !.run.completed_at = Stamped,
                      !.pc = "done"]
      [] L.pc = "except" ->
            [L EXCEPT !.run = FailedByException(@, L.exc), !.pc = Caught]
      [] OTHER -> L

\* The callers of execute that run at the same time.
Runners == {RunIdPool[1], RunIdPool[2]}

\* Variant: visited_nodes is an attribute of the engine, one set for all
\* calls.
AfterStep_SharedVisited(rs, r, registry) ==
    LET L == EngineStep(rs[r], registry)
        shared == L.visited_nodes \cup UNION {rs[q].visited_nodes : q \in DOMAIN rs}
    IN  [q \in DOMAIN rs |->
            IF q = r THEN [L EXCEPT !.visited_nodes = shared]
            ELSE [rs[q] EXCEPT !.visited_nodes = shared]]

\* The calls after one step of call r: its locals change, nothing else.
AfterStep(rs, r, registry) == [rs EXCEPT ![r] = EngineStep(rs[r], registry)]

\* One step of one of the calls.
StepRun ==
    \E r \in Runners :
        /\ runs[r].pc # "done"
        /\ runs' = AfterStep(runs, r, tools)
        /\ UNCHANGED <<tools, enginevars, registry_call, last_effect, threads,
                       ingressvars, heap, stored_runs, run_response>>

\* The graphs of the two calls: the stored graphs, and a chain of two tools
\* that write into the payload mapping they are given.
TwoRunGraphs ==
    {ServiceGraphs[i] : i \in DOMAIN ServiceGraphs} \cup
    {[graph_id |-> "g4", name |-> "mutate",
      nodes |-> ChainNodes(2, <<"mutate", "mutate_fail">>),
      edges |-> ChainEdges(2), entry_point |-> "A"]}

InitTwoRuns ==
    /\ tools = InitialTools
    /\ EngineIdle
    /\ RegistryQuiet
    /\ IngressQuiet
    /\ stored_runs = <<>>
    /\ run_response = NoRunResponse
    /\ heap = <<>>
    /\ \E g \in [Runners -> TwoRunGraphs],
          x \in [Runners -> 0..MaxX0],
          m \in [Runners -> 1..MaxIter] :
            runs = [r \in Runners |-> StartLocals(r, g[r], Payload(x[r]), m[r])]

SpecTwoRuns == InitTwoRuns /\ [][StepRun]_vars


\* --------------------------------------------- tools that take their time
(* The steps of every call of execute run on the one thread of the event   *)
(* loop.  A synchronous tool is not called there: line 260 hands it to a   *)
(* worker thread with asyncio.to_thread and the call of execute waits,     *)
(* pc = "in_tool", until the tool is over, which may take any time.        *)
\* Variant: the tool is called on the thread of the event loop.
SyncToolThread_Loop == "loop"

\* The thread a synchronous tool runs on (line 260).
SyncToolThread == "worker"

\* The event loop is kept by a tool of another call.
LoopBusy(rs, r) ==
    \E q \in DOMAIN rs \ {r} : rs[q].pc = "in_tool" /\ SyncToolThread = "loop"

\* The node about to be executed calls a registered tool.
CallsTool(L, registry) ==
    /\ L.pc = "execute_node"
    /\ LET node == NodeMap(L.graph.nodes)[L.current_node_name]
       IN  /\ node.node_type = FUNCTION
           /\ Truthy(node.tool_name)
           /\ ToolRegistered(registry, node.tool_name)

\* One step of call r on the event loop: the tool is started, or the step
\* of EngineStep is taken.
LoopStep(r) ==
    /\ runs[r].pc \notin {"done", "in_tool"}
    /\ ~LoopBusy(runs, r)
    /\ runs' = IF CallsTool(runs[r], tools)
               THEN [runs EXCEPT ![r].pc = "in_tool"]
               ELSE AfterStep(runs, r, tools)
    /\ UNCHANGED <<tools, enginevars, registry_call, last_effect, threads,
                   ingressvars, heap, stored_runs, run_response>>

\* The tool of call r is over: the call goes on with its result.
ToolReturns(r) ==
    /\ runs[r].pc = "in_tool"
    /\ ~LoopBusy(runs, r)
    /\ runs' = AfterStep([runs EXCEPT ![r].pc = "execute_node"], r, tools)
    /\ UNCHANGED <<tools, enginevars, registry_call, last_effect, threads,
                   ingressvars, heap, stored_runs, run_response>>

NextBlocking == \E r \in Runners : LoopStep(r) \/ ToolReturns(r)

(* The event loop runs every callback that is ready, and the tools of the  *)
(* second call return; nothing is assumed of the tools of the first call:  *)
(* they may block for ever.                                                *)
SpecBlocking ==
    /\ InitTwoRuns
    /\ [][NextBlocking]_vars
    /\ WF_vars(LoopStep(RunIdPool[2]))
    /\ WF_vars(ToolReturns(RunIdPool[2]))


\* ------------------------------------------------- the code review graph
\* The tools registered by the decorators of code_review.py.
ReviewTools == [t \in ReviewToolNames |-> t]

\* create_code_review_graph()
CodeReviewGraph ==
    [graph_id |-> "g1", name |-> "Code Review Agent",
     nodes |-> <<[name |-> "extract", node_type |-> FUNCTION,
                  tool_name |-> "extract_functions"],
                 [name |-> "complexity", node_type |-> FUNCTION,
                  tool_name |-> "check_complexity"],
                 [name |-> "issues", node_type |-> FUNCTION,
                  tool_name |-> "detect_issues"],
                 [name |-> "suggestions", node_type |-> FUNCTION,
                  tool_name |-> "suggest_improvements"],
                 [name |-> "quality", node_type |-> FUNCTION,
                  tool_name |-> "calculate_quality"]>>,
     edges |-> <<[from_node |-> "extract", to_node |-> "complexity",
                  condition |-> None],
                 [from_node |-> "complexity", to_node |-> "issues",
                  condition |-> None],
                 [from_node |-> "issues", to_node |-> "suggestions",
                  condition |-> None],
                 [from_node |-> "suggestions", to_node |-> "quality",
                  condition |-> None],
                 [from_node |-> "quality", to_node |-> "suggestions",
                  condition |-> ReviewCondition]>>,
     entry_point |-> "extract"]

(* Source texts handed in under 'code': no function; a short plain one; a  *)
(* function with twelve decision keywords; a long, nested one; the plain   *)
(* and the complex one together (their score is exactly 8.0).              *)
ReviewCodes ==
    LET plain == [num_lines |-> 3, decisions |-> 0, max_indent |-> 1]
        complex == [num_lines |-> 20, decisions |-> 12, max_indent |-> 2]
        long == [num_lines |-> 60, decisions |-> 8, max_indent |-> 5]
    IN  {<<>>, <<plain>>, <<complex>>, <<long>>, <<plain, complex>>}

\* 'improvement_iteration' in the initial_state of the request: not there,
\* or a number the client put there.
ReviewCounters == {<<>>, <<-1>>, <<0>>, <<3>>, <<5>>}

\* run_graph calls execute with max_iterations=10 on the stored graph.
InitReview ==
    /\ tools = ReviewTools
    /\ graph = CodeReviewGraph
    /\ initial_state \in {ReviewPayload(code, n) :
                              code \in ReviewCodes, n \in ReviewCounters}
    /\ max_iterations = DefaultMaxIterations
    /\ run = NewRun(graph, initial_state, max_iterations)
    /\ pc = "loop_head"
    /\ current_node_name = graph.entry_point
    /\ visited_nodes = {}
    /\ next_node = None
    /\ execution_log = NoLog
    /\ exc = NoError
    /\ RegistryQuiet
    /\ IngressQuiet
    /\ ServiceQuiet

\* The event loop keeps running the call of execute.
SpecReview == InitReview /\ [][Next]_vars /\ WF_vars(Next)


\* ------------------------------------------- payloads by object identity
(* Where it matters which mapping or list is the same object as which, a   *)
(* payload is a reference into heap, the sequence of the objects made so   *)
(* far (an object's identity is its index).  The objects are those of the  *)
(* code review tools:                                                      *)
(*   a payload mapping  [kind |-> "dict", code, functions, avg_complexity] *)
(*                      with functions the reference of a list, 0 for no   *)
(*                      such key, and avg_complexity -1 for no such key;   *)
(*   a list of function records [kind |-> "list", elems], each record with *)
(*                      complexity 0 for no such key.                      *)
\* Dict[str, Any] validated by a pydantic model (ExecutionLog, WorkflowState):
\* a new mapping with the same values, nested objects included as they are.
validated(h, d) == [heap |-> Append(h, h[d]), ref |-> Len(h) + 1]

\* copy.deepcopy of a payload mapping: the list is copied as well.
deepcopy(h, d) ==
    IF h[d].functions = 0
    THEN [heap |-> Append(h, h[d]), ref |-> Len(h) + 1]
    ELSE [heap |-> Append(Append(h, h[h[d].functions]),
                          [h[d] EXCEPT !.functions = Len(h) + 1]),
          ref |-> Len(h) + 2]

(* extract_functions binds state['functions'] to a new list, one record    *)
(* per function of state['code']; check_complexity writes 'complexity'     *)
(* into every record of the list state['functions'] and binds              *)
(* state['avg_complexity'].  Both return the mapping they were given.      *)
CallTool(tool, h, d) ==
    IF tool = "extract_functions"
    THEN [heap |-> [Append(h, [kind |-> "list",
                               elems |-> IF h[d].code = "def f(): pass"
                                         THEN <<[complexity |-> 0]>> ELSE <<>>])
                       EXCEPT ![d].functions = Len(h) + 1],
          result |-> d]
    ELSE IF h[d].functions = 0
    THEN [heap |-> [h EXCEPT ![d].avg_complexity = 0], result |-> d]
    ELSE LET l == h[d].functions
         IN  [heap |-> [h EXCEPT
                          ![l].elems = [i \in DOMAIN h[l].elems |->
                                           [complexity |-> 1]],
                          ![d].avg_complexity =
                              IF Len(h[l].elems) > 0 THEN 1 ELSE 0],
              result |-> d]

\* Lines 99-107 with 183-211, on references: the deep copy, the call of the
\* tool on the mapping of the run, the ExecutionLog built of both.
ExecuteNodeRefs ==
    /\ pc = "execute_node"
    /\ LET node == NodeMap(graph.nodes)[current_node_name]
           input == deepcopy(heap, run.current_state.data)
           called == CallTool(get(tools, node.tool_name).value, input.heap,
                              run.current_state.data)
           input_state == validated(called.heap, input.ref)
           output_state == validated(input_state.heap, called.result)
           log == [node_name |-> node.name, timestamp |-> Stamped,
                   input_state |-> input_state.ref,
                   output_state |-> output_state.ref,
                   success |-> TRUE, error |-> NoError]
       IN  /\ heap' = output_state.heap
           /\ execution_log' = log
           /\ run' = [run EXCEPT !.execution_logs = Append(@, log)]
    /\ pc' = "check_log"
    /\ UNCHANGED <<tools, graph, initial_state, max_iterations,
                   current_node_name, visited_nodes, next_node, exc>>
    /\ UNCHANGED <<registry_call, last_effect, threads, ingressvars, servicevars>>

\* Lines 109-121 on references: WorkflowState(data=execution_log.output_state)
CheckLogRefs ==
    /\ pc = "check_log"
    /\ IF ~execution_log.success
       THEN /\ run' = [run EXCEPT !.status = FAILED,
                                  !.error = execution_log.error,
                                  !.completed_at = Stamped]
            /\ pc' = AfterBreak
            /\ UNCHANGED heap
       ELSE LET data == validated(heap, execution_log.output_state)
            IN  /\ run' = [run EXCEPT !.current_state =
                                          ReplacedState(@, data.ref)]
                /\ heap' = data.heap
                /\ pc' = "track_visited"
    /\ UNCHANGED <<tools, graph, initial_state, max_iterations,
                   current_node_name, visited_nodes, next_node, execution_log, exc>>
    /\ UNCHANGED <<registry_call, last_effect, threads, ingressvars, servicevars>>

\* execute on a chain of up to MaxChain nodes that call extract_functions
\* or check_complexity.  The caller's initial_state is object 1, the mapping
\* WorkflowState(data=initial_state) makes of it is object 2.
InitRefs ==
    /\ tools = ReviewTools
    /\ \E n \in 1..MaxChain :
          \E t \in [1..n -> {"extract_functions", "check_complexity"}] :
              graph = [graph_id |-> "g1", name |-> "wf",
                       nodes |-> ChainNodes(n, t), edges |-> ChainEdges(n),
                       entry_point |-> "A"]
    /\ \E code \in {"def f(): pass", ""} :
          heap = validated(<<[kind |-> "dict", code |-> code, functions |-> 0,
                              avg_complexity |-> -1]>>, 1).heap
    /\ initial_state = 1
    /\ max_iterations \in {0, DefaultMaxIterations}
    /\ run = [NewRun(graph, initial_state, max_iterations)
                 EXCEPT !.current_state.data = 2]
    /\ pc = "loop_head"
    /\ current_node_name = graph.entry_point
    /\ visited_nodes = {}
    /\ next_node = None
    /\ execution_log = NoLog
    /\ exc = NoError
    /\ RegistryQuiet
    /\ IngressQuiet
    /\ stored_runs = <<>>
    /\ run_response = NoRunResponse
    /\ runs = <<>>

NextRefs ==
    \/ LoopHead
    \/ ExecuteNodeRefs
    \/ CheckLogRefs
    \/ TrackVisited
    \/ SelectNext
    \/ CountIteration
    \/ MoveNext
    \/ MarkCompleted
    \/ HandleException

SpecRefs == InitRefs /\ [][NextRefs]_vars


\* ---------------------------------------- register called from two threads
(* ToolRegistry holds no lock: a thread inside register can be preempted   *)
(* between the membership test of line 50, the callable test of line 57    *)
(* and the write of line 60.  A thread's pc is "idle", the line it is      *)
(* about to execute, or "returned".                                        *)
RegisterEnter ==
    \E t \in Threads, n \in RegNames, f \in RegFuncs, o \in BOOLEAN :
        /\ threads[t].pc \in {"idle", "returned"}
        /\ threads' = [threads EXCEPT ![t] =
                          [pc |-> "line50", name |-> n, func |-> f,
                           override |-> o, raised |-> FALSE, error |-> NoError]]
        /\ UNCHANGED <<tools, enginevars, registry_call, last_effect,
                       ingressvars, heap, servicevars>>

\* Lines 50-54
RegisterCheck ==
    \E t \in Threads :
        /\ threads[t].pc = "line50"
        /\ threads' = [threads EXCEPT ![t] =
              IF threads[t].name \in DOMAIN tools /\ ~threads[t].override
              THEN [@ EXCEPT !.pc = "returned", !.raised = TRUE,
                             !.error = ErrAlreadyRegistered(threads[t].name)]
              ELSE [@ EXCEPT !.pc = "line57"]]
        /\ UNCHANGED <<tools, enginevars, registry_call, last_effect,
                       ingressvars, heap, servicevars>>

\* Lines 57-58
RegisterValidate ==
    \E t \in Threads :
        /\ threads[t].pc = "line57"
        /\ threads' = [threads EXCEPT ![t] =
              IF ~callable(threads[t].func)
              THEN [@ EXCEPT !.pc = "returned", !.raised = TRUE,
                             !.error = ErrNotCallable(threads[t].name)]
              ELSE [@ EXCEPT !.pc = "line60"]]
        /\ UNCHANGED <<tools, enginevars, registry_call, last_effect,
                       ingressvars, heap, servicevars>>

\* Lines 60-61
RegisterStore ==
    \E t \in Threads :
        /\ threads[t].pc = "line60"
        /\ tools' = Bind(tools, threads[t].name, threads[t].func)
        /\ threads' = [threads EXCEPT ![t].pc = "returned"]
        /\ UNCHANGED <<enginevars, registry_call, last_effect,
                       ingressvars, heap, servicevars>>

SpecThreads ==
    InitRegistry /\
    [][RegisterEnter \/ RegisterCheck \/ RegisterValidate \/ RegisterStore]_vars


\* =================================================================== claims
Returned == pc = "done"
Logs == run.execution_logs
LastLog == Logs[Len(Logs)]
LogNames == [i \in DOMAIN Logs |-> Logs[i].node_name]

\* The outgoing edges of node n in declared order.
EdgesOutOf(n) == SelectSeq(graph.edges, LAMBDA e : e.from_node = n)

\* C1: when a node's log reports failure, no further node is executed and
\* the returned Run has status FAILED, error equal to that log's error and
\* completed_at set.
C1_FailedLogFailsRun ==
    \A i \in DOMAIN Logs :
        ~Logs[i].success =>
            /\ i = Len(Logs)
            /\ Returned => /\ run.status = FAILED
                           /\ run.error = Logs[i].error
                           /\ run.completed_at = Stamped

\* C2: a returned Run with status COMPLETED has completed_at set and no log
\* with success = false.
C2_CompletedHasNoFailedLog ==
    (Returned /\ run.status = COMPLETED) =>
        /\ run.completed_at = Stamped
        /\ \A i \in DOMAIN Logs : Logs[i].success

\* C3: a Run with status FAILED has a non-null error and completed_at set.
C3_FailedHasErrorAndStamp ==
    run.status = FAILED =>
        /\ run.error # NoError
        /\ run.completed_at = Stamped

\* C3 witness: execute has returned a FAILED run after executing a node.
C3_Witness == Returned /\ run.status = FAILED /\ Len(Logs) > 0

\* C4: with iteration_count = max_iterations at the head of the loop the
\* next step raises the iteration-cap error without touching the run (no
\* node is executed, no log appended), and the except clause then returns
\* the run FAILED with that error and the same logs.
C4_CapIsStrict ==
    [][/\ (pc = "loop_head" /\ Truthy(current_node_name)
            /\ run.iteration_count = max_iterations)
          => (pc' = "except" /\ exc' = ErrMaxIterations /\ run' = run)
       /\ (pc = "except" /\ exc = ErrMaxIterations)
          => /\ pc' = "done"
             /\ run'.status = FAILED
             /\ run'.error = ErrMaxIterations
             /\ run'.execution_logs = run.execution_logs
             /\ run'.iteration_count = run.iteration_count]_vars

\* C4 witness: a run that executed nodes, came back to the head of the loop
\* with iteration_count = max_iterations and was returned.
C4_Witness ==
    /\ Returned
    /\ Len(Logs) > 0
    /\ run.iteration_count = max_iterations
    /\ run.error = ErrMaxIterations

\* C5: iteration_count never exceeds max_iterations (max_iterations >= 0).
C5_CountWithinCap ==
    run.max_iterations >= 0 => run.iteration_count <= run.max_iterations

\* C5 witness: the counter has just been raised to the cap.
C5_Witness ==
    /\ pc = "move_next"
    /\ run.max_iterations >= 1
    /\ run.iteration_count = run.max_iterations

\* The graph of the loop scenario: A -> B unconditional, B -> A on "True",
\* entry A, nodes that succeed.
IsTwoNodeCycle ==
    /\ graph.entry_point = "A"
    /\ Len(graph.edges) = 2
    /\ {graph.edges[1], graph.edges[2]} =
          {[from_node |-> "A", to_node |-> "B", condition |-> None],
           [from_node |-> "B", to_node |-> "A", condition |-> "True"]}
    /\ \A i \in DOMAIN graph.nodes :
          \/ graph.nodes[i].node_type = CONDITIONAL
          \/ graph.nodes[i].tool_name = "inc"

\* C6 as stated: the cycle with max_iterations = 3 returns FAILED on the
\* iteration cap with iteration_count = 3 and 7 execution logs.
C6_CycleSevenLogs ==
    (Returned /\ IsTwoNodeCycle /\ max_iterations = 3) =>
        /\ run.status = FAILED
        /\ run.error = ErrMaxIterations
        /\ run.iteration_count = 3
        /\ Len(Logs) = 7

\* C6 amended: the cycle with max_iterations = 3 returns FAILED on the
\* iteration cap with iteration_count = 3 and 4 execution logs, A B A B
\* (1 + max_iterations nodes executed).
C6_CycleFourLogs ==
    (Returned /\ IsTwoNodeCycle /\ max_iterations = 3) =>
        /\ run.status = FAILED
        /\ run.error = ErrMaxIterations
        /\ run.iteration_count = 3
        /\ Len(Logs) = 4
        /\ LogNames = <<"A", "B", "A", "B">>

\* C6 witness: the cycle has been run with max_iterations = 3.
C6_Witness == Returned /\ IsTwoNodeCycle /\ max_iterations = 3


\* What the specification says of conditions: which expressions hold on a
\* payload, and which cannot be evaluated at all.
SpecHolds(condition, state) ==
    \/ condition = "True"
    \/ condition = "state['x'] == 1" /\ state.x = 1
    \/ condition = "state['x'] >= 2" /\ state.x >= 2
    \/ condition = "state['x']" /\ state.x # 0

SpecFails(condition) ==
    condition \in {"state['missing']['deep']", "open('f')", "state['x'] >="}

\* An edge "has a condition string" when its condition is a non-empty
\* string; an edge whose condition is null or empty is "without a condition".
SpecConditional(e) == e.condition # None /\ e.condition # ""

Least(S) == CHOOSE i \in S : \A j \in S : i <= j

\* The successor the specification names for outgoing edges E (in declared
\* order) on payload state.
SpecSuccessor(E, state) ==
    LET matched == {i \in DOMAIN E :
                       SpecConditional(E[i]) /\ SpecHolds(E[i].condition, state)}
        plain == {i \in DOMAIN E : ~SpecConditional(E[i])}
    IN  IF matched # {} THEN E[Least(matched)].to_node
        ELSE IF plain # {} THEN E[Least(plain)].to_node
        ELSE None

\* C7: the successor selected for a node is the target of the earliest
\* declared edge that has a condition string holding on the payload, else
\* the target of the earliest declared edge without a condition, else null
\* (so a satisfied conditional edge wins over an unconditional edge declared
\* before it, and an unconditional edge declared after unsatisfied
\* conditional edges is taken).
C7_SuccessorSelection ==
    pc = "count_iteration" =>
        next_node = SpecSuccessor(EdgesOutOf(current_node_name),
                                  run.current_state.data)

\* C7 witness: of three edges, the first carries a condition that does not
\* hold, the second carries none, the third carries one that holds and has
\* won over the unconditional edge declared before it.
C7_Witness ==
    /\ pc = "count_iteration"
    /\ LET E == EdgesOutOf(current_node_name)
       IN  /\ Len(E) = 3
           /\ SpecConditional(E[1])
           /\ ~SpecHolds(E[1].condition, run.current_state.data)
           /\ ~SpecConditional(E[2])
           /\ SpecConditional(E[3])
           /\ SpecHolds(E[3].condition, run.current_state.data)
           /\ E[2].to_node # E[3].to_node
           /\ next_node = E[3].to_node

\* C8: a successfully executed node whose outgoing edges all carry a
\* condition, none of which holds, is terminal: the run is returned
\* COMPLETED with no error.
OnlyUnsatisfiedConditions(n, state) ==
    LET E == EdgesOutOf(n)
    IN  /\ E # <<>>
        /\ \A i \in DOMAIN E :
              SpecConditional(E[i]) /\ ~SpecHolds(E[i].condition, state)

C8_UnmatchedConditionsComplete ==
    ( /\ Returned
      /\ Len(Logs) > 0
      /\ LastLog.success
      /\ OnlyUnsatisfiedConditions(LastLog.node_name, LastLog.output_state) )
    => (run.status = COMPLETED /\ run.error = NoError)

\* C8 witness: such a node was the last to execute, after another node.
C8_Witness ==
    /\ Returned
    /\ Len(Logs) > 1
    /\ LastLog.success
    /\ OnlyUnsatisfiedConditions(LastLog.node_name, LastLog.output_state)

\* The edges of E whose condition can be evaluated.
Evaluable(E) == SelectSeq(E, LAMBDA e : ~SpecFails(e.condition))

\* C9: an edge whose condition fails to evaluate is not taken and selection
\* goes on with the other edges, as if the edge were not there; the failure
\* does not fail the run, which is returned COMPLETED without error.
C9_FailedConditionIsFalse ==
    /\ pc = "count_iteration" =>
          next_node = SpecSuccessor(Evaluable(EdgesOutOf(current_node_name)),
                                    run.current_state.data)
    /\ Returned =>
          /\ run.status = COMPLETED
          /\ run.error = NoError
          /\ \A i \in DOMAIN Logs : Logs[i].success
          /\ \A i \in DOMAIN Logs : i > 1 =>
                \E j \in DOMAIN graph.edges :
                    /\ graph.edges[j].from_node = Logs[i - 1].node_name
                    /\ graph.edges[j].to_node = Logs[i].node_name
                    /\ ~SpecFails(graph.edges[j].condition)

\* C9 witness: the first edge's condition failed, a later edge was used and
\* the run came back completed.
C9_Witness ==
    /\ Returned
    /\ Len(EdgesOutOf("A")) >= 2
    /\ SpecFails(EdgesOutOf("A")[1].condition)
    /\ Len(Logs) = 2
    /\ LastLog.node_name # EdgesOutOf("A")[1].to_node
    /\ run.status = COMPLETED

\* C10: after a node fails, the state of the returned Run is the failing
\* log's input_state.
C10_FailureRollsBackState ==
    (Returned /\ Len(Logs) > 0 /\ ~LastLog.success) =>
        run.current_state.data = LastLog.input_state

\* C11: in every execution log, success is false exactly when error is
\* non-null, and a log with success = false has output_state equal to its
\* input_state.
C11_LogErrorIffFailed ==
    \A i \in DOMAIN Logs :
        /\ ~Logs[i].success <=> Logs[i].error # NoError
        /\ ~Logs[i].success => Logs[i].output_state = Logs[i].input_state

\* C11 witness: a log of a tool that wrote into its argument and then raised.
C11_Witness ==
    /\ Len(Logs) > 0
    /\ ~LastLog.success
    /\ LastLog.error = ErrToolRaised("mutate_fail")
    /\ run.current_state.data # LastLog.input_state

\* The node a log is about.
NodeOfLog(log) == NodeMap(graph.nodes)[log.node_name]

\* A FUNCTION node that names no tool, or a tool the registry does not hold.
HasNoTool(node) ==
    /\ node.node_type = FUNCTION
    /\ ~Truthy(node.tool_name) \/ ~exists(tools, node.tool_name)

\* C12: a FUNCTION node whose tool_name is not registered when the node is
\* dispatched, or that has no tool_name, calls no tool and yields a failure
\* log (with a "tool not found" error in the first case); the run is failed
\* and no later node is executed.
C12_MissingToolFailsRun ==
    \A i \in DOMAIN Logs :
        HasNoTool(NodeOfLog(Logs[i])) =>
            /\ ~Logs[i].success
            /\ Truthy(NodeOfLog(Logs[i]).tool_name) =>
                  Logs[i].error = ErrToolNotFound(NodeOfLog(Logs[i]).tool_name)
            /\ i = Len(Logs)
            /\ Returned => run.status = FAILED

\* C13: as long as every tool call returns or raises, every call of execute
\* returns, and the Run it returns is COMPLETED or FAILED, whatever the
\* graph (cycles, edges to names that are no node), the initial state and
\* max_iterations; no exception of a tool or of the engine leaves execute.
C13_ExecuteReturns == <>(Returned /\ run.status \in {COMPLETED, FAILED})

\* C13 witness: a run on a cyclic graph with an edge to a name that is no
\* node has returned, failed by an exception of the engine.
C13_Witness ==
    /\ Returned
    /\ run.status = FAILED
    /\ exc # NoError
    /\ \E i, j \in DOMAIN graph.edges :
          /\ graph.edges[i].to_node = graph.edges[i].from_node
          /\ graph.edges[j].to_node = UnknownName

\* The entry_point of the graph names one of its nodes.
EntryExists == graph.entry_point \in DOMAIN NodeMap(graph.nodes)

\* C14 as stated: a Run returned on a graph whose entry_point names an
\* existing node has at least one execution log, whatever the initial state
\* and max_iterations.
C14_EntryValidHasLog == (Returned /\ EntryExists) => Len(Logs) >= 1

\* C14 amended: a Run returned on a graph whose entry_point names an
\* existing node has at least one execution log exactly when max_iterations
\* is at least 1; with max_iterations = 0 the cap check at the head of the
\* loop fails the run before the entry node is executed.
C14_EntryValidHasLogUnlessZeroCap ==
    (Returned /\ EntryExists) => (Len(Logs) >= 1 <=> max_iterations >= 1)

\* C14 witness: a run with max_iterations = 1 came back from the cap check
\* with logs, and its entry node is the first of them.
C14_Witness ==
    /\ Returned
    /\ EntryExists
    /\ max_iterations = 1
    /\ run.error = ErrMaxIterations
    /\ Len(Logs) >= 2
    /\ Logs[1].node_name = graph.entry_point

\* The graph is a simple chain whose nodes all name the identity tool.
IsIdentityChain ==
    /\ graph.edges = ChainEdges(Len(graph.nodes))
    /\ \A i \in DOMAIN graph.nodes : graph.nodes[i].tool_name = "identity"

\* The nodes the run has moved to, in order: the executed ones and, when
\* the head of the loop raised, the one it had moved to.
NodesEntered ==
    IF exc # NoError THEN Append(LogNames, current_node_name) ELSE LogNames

\* No node was entered twice: no transition went into a visited node.
NoRevisit ==
    \A i, j \in DOMAIN NodesEntered : i < j => NodesEntered[i] # NodesEntered[j]

\* C15: on a simple chain of FUNCTION nodes with identity tools, entered at
\* its first node (max_iterations at least 1, as is the default), execute
\* returns a COMPLETED run with one log per node in chain order,
\* iteration_count = 0 and the initial state as final state; and every run
\* without a transition into a visited node is returned with
\* iteration_count = 0.
C15_ChainNoIteration ==
    /\ (Returned /\ IsIdentityChain /\ max_iterations >= 1) =>
          /\ run.status = COMPLETED
          /\ LogNames = SubSeq(ChainNames, 1, Len(graph.nodes))
          /\ run.iteration_count = 0
          /\ run.current_state.data = initial_state
    /\ (Returned /\ NoRevisit) => run.iteration_count = 0

\* C15 witness: the chain A -> B -> C with identity tools has returned.
C15_Witness ==
    /\ Returned
    /\ IsIdentityChain
    /\ Len(graph.nodes) = 3
    /\ max_iterations >= 1
    /\ LogNames = <<"A", "B", "C">>

\* C16: register without override fails when the name is bound, register
\* fails when func is not callable, and a failed register leaves the table
\* as it was; register with override on a bound name replaces that binding
\* and leaves every other binding alone.
C16_RegisterFailsClean ==
    [][registry_call'.op = "register" =>
          LET c == registry_call'
          IN  /\ (c.name \in DOMAIN tools /\ ~c.override) =>
                    (c.raised /\ c.error = ErrAlreadyRegistered(c.name))
              /\ ~callable(c.func) => c.raised
              /\ c.raised => tools' = tools
              /\ (c.name \in DOMAIN tools /\ c.override /\ callable(c.func)) =>
                    /\ ~c.raised
                    /\ DOMAIN tools' = DOMAIN tools
                    /\ tools'[c.name] = c.func
                    /\ \A m \in DOMAIN tools \ {c.name} : tools'[m] = tools[m]
     ]_vars

\* C16 witness: register with override of a value that is not callable has
\* failed on a bound name, next to another binding, and the binding is kept.
C16_Witness ==
    /\ registry_call.op = "register"
    /\ registry_call.raised
    /\ registry_call.override
    /\ registry_call.error = ErrNotCallable(registry_call.name)
    /\ DOMAIN tools = RegNames
    /\ tools[registry_call.name] = last_effect[registry_call.name].func

\* The names whose last successful operation was a register.
LastRegistered == {n \in RegNames : last_effect[n].op = "register"}

\* C17: after any sequence of register / unregister / clear, exists(n) is
\* true and get(n) returns f exactly when the last successful operation
\* that affected n was register(n, f); list_tools() is the set of these
\* names; get of an absent name fails with not-found; unregister of an
\* absent name fails and leaves the table unchanged.
C17_RegistryIsMap ==
    /\ [](\A n \in RegNames :
            /\ exists(tools, n) <=> n \in LastRegistered
            /\ n \in LastRegistered =>
                  /\ ~get(tools, n).raised
                  /\ get(tools, n).value = last_effect[n].func
            /\ n \notin LastRegistered =>
                  /\ get(tools, n).raised
                  /\ get(tools, n).error = ErrKeyNotFound(n))
    /\ [](list_tools(tools) = LastRegistered)
    /\ [][(registry_call'.op = "unregister" /\ registry_call'.name \notin DOMAIN tools)
             => (registry_call'.raised /\ tools' = tools)]_vars

\* C17 witness: one name was registered, unregistered and registered anew,
\* the other was removed by clear before that, and an unregister of it has
\* just failed.
C17_Witness ==
    /\ registry_call.op = "unregister"
    /\ registry_call.raised
    /\ last_effect[registry_call.name].op = "clear"
    /\ \E n \in RegNames :
          /\ n # registry_call.name
          /\ last_effect[n].op = "register"
          /\ exists(tools, n)

\* Thread t has returned from register(n, ., override = false) without error.
RegisteredPlain(t, n) ==
    /\ threads[t].pc = "returned"
    /\ threads[t].name = n
    /\ ~threads[t].override
    /\ ~threads[t].raised

\* C18: of two threads that call register without override for the same
\* unbound name, at most one succeeds, and a binding made by a register
\* without override is not replaced by another register without override.
C18_OneRegisterWins ==
    \A n \in RegNames : \A a, b \in Threads :
        (a # b /\ RegisteredPlain(a, n)) => ~RegisteredPlain(b, n)

\* C19: when the caller cancels an execution, the engine stops between two
\* nodes, not inside a tool (every node it has dispatched has its log), and
\* the Run is marked FAILED with an error and completed_at set.
C19_CancelFailsRun ==
    pc = "cancelled" =>
        /\ run.status = FAILED
        /\ run.error # NoError
        /\ run.completed_at = Stamped
        /\ Len(Logs) > 0
        /\ LastLog.node_name = run.current_node

\* C20: a create request with two nodes of the same name is rejected and
\* nothing is stored: every stored graph has pairwise distinct node names.
C20_StoredNamesDistinct ==
    \A g \in DOMAIN stored_graphs :
        \A i, j \in DOMAIN stored_graphs[g].nodes :
            i # j => stored_graphs[g].nodes[i].name # stored_graphs[g].nodes[j].name

\* The names of the nodes of a graph or of a create request.
NamesOf(g) == {g.nodes[i].name : i \in DOMAIN g.nodes}

\* The entry_point and both ends of every edge are node names.
WellFormed(g) ==
    /\ g.entry_point \in NamesOf(g)
    /\ \A i \in DOMAIN g.edges :
          /\ g.edges[i].from_node \in NamesOf(g)
          /\ g.edges[i].to_node \in NamesOf(g)

\* C21: after any sequence of create requests, every stored graph has its
\* entry_point and the ends of all its edges among its node names; a
\* request that breaks either rule is answered 400 and stores nothing.
C21_StoredGraphsWellFormed ==
    /\ [](\A g \in DOMAIN stored_graphs : WellFormed(stored_graphs[g]))
    /\ [][~WellFormed(create_request') =>
             (response'.status_code = 400 /\ stored_graphs' = stored_graphs)]_vars

\* C21 witness: with one graph stored, a request whose edge ends at a name
\* that is no node has been answered 400.
C21_Witness ==
    /\ Len(stored_graphs) = 1
    /\ WellFormed(stored_graphs[1])
    /\ Len(stored_graphs[1].edges) = 1
    /\ response.status_code = 400
    /\ response.detail = ErrEdgeTo(UnknownName)
    /\ create_request.entry_point \in NamesOf(create_request)

\* C23: Run.status becomes COMPLETED only when a successfully executed
\* node has no successor, becomes FAILED on a node error, a missing node, a
\* missing tool or a met iteration cap, and once it is COMPLETED or FAILED
\* it does not change any more.
C23_StatusLifecycle ==
    [][/\ run.status \in {COMPLETED, FAILED} => run'.status = run.status
       /\ (run.status = RUNNING /\ run'.status = COMPLETED) =>
             /\ Len(Logs) > 0
             /\ LastLog.success
             /\ ~Truthy(next_node)
       /\ (run.status = RUNNING /\ run'.status = FAILED) =>
             \/ pc = "check_log" /\ ~execution_log.success
             \/ pc = "except"
      ]_vars

\* C25: when the node looked up at the head of the loop is not in the node
\* map (an entry_point or an edge target that names no node; the lookup
\* comes after the cap check), the run is returned FAILED with an error
\* that names the unknown node and with completed_at set, and no log is
\* appended for that node.
C25_UnknownNodeFailsRun ==
    (/\ Returned
     /\ Truthy(current_node_name)
     /\ current_node_name \notin DOMAIN NodeMap(graph.nodes)
     /\ ~CapReached(run.iteration_count, max_iterations)) =>
        /\ run.status = FAILED
        /\ run.error # NoError
        /\ run.error[1] = "Node not found in graph"
        /\ run.error[2] = current_node_name
        /\ run.completed_at = Stamped
        /\ \A i \in DOMAIN Logs : Logs[i].node_name # current_node_name

\* C25 witness: a run that executed a node and then moved along an edge to
\* a name that is no node.
C25_Witness ==
    /\ Returned
    /\ Len(Logs) >= 1
    /\ current_node_name = UnknownName
    /\ run.status = FAILED
    /\ run.error = ErrNodeNotFound(UnknownName)

\* Edge j of the graph leads from n to m and is rightly selected on payload
\* state: its condition holds on state, or it is the first edge out of n
\* without a condition and no conditional edge out of n holds on state.
RightlySelected(j, n, m, state) ==
    LET e == graph.edges[j]
    IN  /\ e.from_node = n
        /\ e.to_node = m
        /\ \/ SpecConditional(e) /\ SpecHolds(e.condition, state)
           \/ /\ ~SpecConditional(e)
              /\ \A k \in DOMAIN graph.edges :
                    graph.edges[k].from_node = n =>
                        IF SpecConditional(graph.edges[k])
                        THEN ~SpecHolds(graph.edges[k].condition, state)
                        ELSE j <= k

\* C26: the first log is the entry_point, and every two consecutive logs
\* n, m correspond to an edge from n to m rightly selected on the output
\* state of n.
C26_TraversalsLegitimate ==
    /\ Len(Logs) >= 1 => Logs[1].node_name = graph.entry_point
    /\ \A i \in DOMAIN Logs : i < Len(Logs) =>
          \E j \in DOMAIN graph.edges :
              RightlySelected(j, Logs[i].node_name, Logs[i + 1].node_name,
                              Logs[i].output_state)

\* C26 witness: a conditional edge declared after an unconditional one was
\* taken once its condition held, after the unconditional one had been
\* taken while it did not.
C26_Witness ==
    /\ Len(Logs) >= 3
    /\ Len(graph.edges) = 2
    /\ ~SpecConditional(graph.edges[1])
    /\ graph.edges[2].condition = "state['x'] >= 2"
    /\ graph.edges[1].from_node = graph.edges[2].from_node
    /\ graph.edges[1].to_node # graph.edges[2].to_node
    /\ \E i, k \in DOMAIN Logs :
          /\ i < Len(Logs) /\ k < Len(Logs)
          /\ RightlySelected(1, Logs[i].node_name, Logs[i + 1].node_name,
                             Logs[i].output_state)
          /\ RightlySelected(2, Logs[k].node_name, Logs[k + 1].node_name,
                             Logs[k].output_state)

\* The nodes the run has moved to so far, in order: the executed ones and
\* the one a counted transition leads to (a transition is selected once
\* lines 127-136 are passed).
EnteredSoFar ==
    IF pc \in {"loop_head", "execute_node", "except"}
    THEN Append(LogNames, current_node_name)
    ELSE IF pc = "move_next" /\ Truthy(next_node)
    THEN Append(LogNames, next_node)
    ELSE IF pc = "done" /\ exc # NoError
    THEN Append(LogNames, current_node_name)
    ELSE LogNames

\* The number of moves into a node the run had been in before.
Revisits(T) ==
    Cardinality({j \in DOMAIN T : \E i \in DOMAIN T : i < j /\ T[i] = T[j]})

\* C27: iteration_count is the number of transitions selected so far whose
\* target had been executed successfully before in the run; a step raises
\* it by at most one, and the visited set only grows.
C27_CountIsRevisits ==
    /\ [](run.iteration_count = Revisits(EnteredSoFar))
    /\ [][/\ visited_nodes \subseteq visited_nodes'
          /\ run'.iteration_count \in
                {run.iteration_count, run.iteration_count + 1}]_vars

\* C27 witness: a run over both nodes that has gone back twice.
C27_Witness ==
    /\ visited_nodes = {"A", "B"}
    /\ run.iteration_count = 2
    /\ Len(Logs) >= 3
    /\ LogNames[1] # LogNames[2]

\* C28: nodes are executed one at a time, and the effects of a successful
\* node come in this order: its log is appended, current_state.data is
\* replaced by the log's output_state, the node is added to visited, the
\* successor is selected on the new state, iteration_count is updated.
\* After a failed node, whose log is appended, visited and iteration_count
\* stay as they are and no successor is selected.
C28_EffectOrder ==
    [][/\ Logs' # Logs =>
             /\ Logs' = Append(Logs, execution_log')
             /\ visited_nodes' = visited_nodes
             /\ run'.iteration_count = run.iteration_count
             /\ next_node' = next_node
             /\ Len(Logs) > 0 =>
                   /\ LastLog.success
                   /\ execution_log'.input_state = LastLog.output_state
                   /\ LastLog.node_name \in visited_nodes
                   /\ next_node = execution_log'.node_name
       /\ (Logs' = Logs /\ run'.current_state.data # run.current_state.data) =>
             /\ LastLog.success
             /\ run'.current_state.data = LastLog.output_state
             /\ visited_nodes' = visited_nodes
             /\ next_node' = next_node
             /\ run'.iteration_count = run.iteration_count
       /\ visited_nodes' # visited_nodes =>
             /\ LastLog.success
             /\ run.current_state.data = LastLog.output_state
             /\ visited_nodes' = visited_nodes \cup {LastLog.node_name}
             /\ next_node' = next_node
             /\ run' = run
       /\ next_node' # next_node =>
             /\ LastLog.success
             /\ LastLog.node_name \in visited_nodes
             /\ next_node' = _get_next_node(LastLog.node_name,
                                            _build_adjacency_map(graph.edges),
                                            LastLog.output_state)
             /\ run' = run
       /\ run'.iteration_count # run.iteration_count =>
             /\ LastLog.success
             /\ LastLog.node_name \in visited_nodes
             /\ next_node = _get_next_node(LastLog.node_name,
                                           _build_adjacency_map(graph.edges),
                                           run.current_state.data)
             /\ next_node' = next_node
       /\ (Len(Logs) > 0 /\ ~LastLog.success) =>
             /\ Logs' = Logs
             /\ visited_nodes' = visited_nodes
             /\ next_node' = next_node
             /\ run'.iteration_count = run.iteration_count
      ]_vars

\* C28 witness: after a second successful node whose output differs from
\* its input, the successor was selected and counted as a re-entry.
C28_Witness ==
    /\ pc = "move_next"
    /\ Len(Logs) = 2
    /\ LastLog.success
    /\ LastLog.output_state # LastLog.input_state
    /\ run.current_state.data = LastLog.output_state
    /\ LastLog.node_name \in visited_nodes
    /\ run.iteration_count = 1

\* C29: throughout every execution run.current_state.metadata is exactly
\* {graph_name: graph.name}: replacing the payload after a node, failures
\* and tools leave it as it is.
C29_MetadataKept ==
    /\ [](run.current_state.metadata = [graph_name |-> graph.name])
    /\ [][run'.current_state.metadata = run.current_state.metadata]_vars

\* C29 witness: the payload has been replaced twice and a tool has written
\* into its argument and failed.
C29_Witness ==
    /\ Len(Logs) = 3
    /\ ~LastLog.success
    /\ LastLog.error = ErrToolRaised("mutate_fail")
    /\ run.current_state.data # initial_state
    /\ Returned

\* A node that is not a FUNCTION node.
PassThrough(node) == node.node_type \in {CONDITIONAL, START, END}

\* C30: a CONDITIONAL, START or END node does not fail, whatever the
\* registry holds and whatever tool_name the node carries, and hands the
\* payload on unchanged: its log has success = true and output_state equal
\* to input_state, and the state data of the run after the node is the
\* state data before it.
C30_PassThroughNodes ==
    /\ \A i \in DOMAIN Logs :
          PassThrough(NodeOfLog(Logs[i])) =>
              /\ Logs[i].success
              /\ Logs[i].error = NoError
              /\ Logs[i].output_state = Logs[i].input_state
    /\ (Len(Logs) > 0 /\ PassThrough(NodeOfLog(LastLog))) =>
          run.current_state.data = LastLog.input_state

\* C30 witness: with an empty registry, a CONDITIONAL node that names a
\* tool and an END node have been executed and the run has returned.
C30_Witness ==
    /\ Returned
    /\ tools = EmptyTable
    /\ Len(Logs) = 2
    /\ NodeOfLog(Logs[1]).node_type = CONDITIONAL
    /\ NodeOfLog(Logs[1]).tool_name = "inc"
    /\ NodeOfLog(Logs[2]).node_type = END
    /\ run.status = COMPLETED

\* C24: POST /graph/run saves the run once, in the step after execute has
\* returned and whatever the status the run ended with, and the run read
\* back by its run_id is the run that was saved: same status, state data,
\* iteration_count and the same logs, field by field, in the same order;
\* GET /graph/state answers with those status, state data and
\* iteration_count.
C24_SavedOnceAndReadBack ==
    /\ [][/\ stored_runs' # stored_runs =>
               /\ pc = "done" /\ pc' = "idle"
               /\ Len(stored_runs') = Len(stored_runs) + 1
               /\ SubSeq(stored_runs', 1, Len(stored_runs)) = stored_runs
               /\ get_run(stored_runs', run.run_id) = run
          /\ (pc = "done" /\ pc' # pc) => stored_runs' # stored_runs]_vars
    /\ [](\A i, j \in DOMAIN stored_runs :
              stored_runs[i].run_id = stored_runs[j].run_id => i = j)
    /\ [](pc # "idle"
              => get_run(stored_runs, run.run_id).run_id = None)
    /\ []((run_response.route = "state" /\ run_response.status_code = 200) =>
              LET r == get_run(stored_runs, run_response.run_id)
              IN  /\ run_response.status = r.status
                  /\ run_response.current_state = r.current_state.data
                  /\ run_response.iterations_completed = r.iteration_count)

\* C24 witness: a run that hit the cap of ten iterations, FAILED with ten
\* logs and a two-digit payload, and a run that COMPLETED have both been
\* saved, and GET /graph/state has answered for the first.
C24_Witness ==
    /\ Len(stored_runs) = 2
    /\ pc = "idle"
    /\ get_run(stored_runs, RunIdPool[1]).status = FAILED
    /\ Len(get_run(stored_runs, RunIdPool[1]).execution_logs) = 10
    /\ get_run(stored_runs, RunIdPool[1]).current_state.data.x >= 10
    /\ get_run(stored_runs, RunIdPool[2]).status = COMPLETED
    /\ Len(get_run(stored_runs, RunIdPool[2]).execution_logs) = 2
    /\ run_response.route = "state"
    /\ run_response.status_code = 200
    /\ run_response.run_id = RunIdPool[1]

\* The locals of the call of execute the engine variables describe.
Locals ==
    [graph |-> graph, initial_state |-> initial_state,
     max_iterations |-> max_iterations, run |-> run, pc |-> pc,
     current_node_name |-> current_node_name, visited_nodes |-> visited_nodes,
     next_node |-> next_node, execution_log |-> execution_log, exc |-> exc]

\* EngineStep is the step the engine actions take.
EngineStepAgrees == [][Locals' = EngineStep(Locals, tools)]_vars

\* What a call of execute returns when no other call runs beside it.
RECURSIVE RunAlone(_, _)
RunAlone(L, registry) ==
    IF L.pc = "done" THEN L ELSE RunAlone(EngineStep(L, registry), registry)

\* The fields of a call that the claim names.
Observed(L) ==
    <<L.run.current_state, L.run.execution_logs, L.visited_nodes,
      L.run.current_node, L.current_node_name, L.run.iteration_count>>

C32_InputStateIsSnapshot ==
    [][\A r \in Runners :
          (runs[r].pc = "execute_node" /\ runs'[r] # runs[r]) =>
              LET before == runs[r].run.current_state.data
                  logs == runs'[r].run.execution_logs
                  log == logs[Len(logs)]
                  node == NodeMap(runs[r].graph.nodes)[runs[r].current_node_name]
              IN  /\ Len(logs) = Len(runs[r].run.execution_logs) + 1
                  /\ log.input_state = before
                  /\ (log.success /\ node.node_type = FUNCTION) =>
                         log.output_state = ToolResult(tools[node.tool_name], before)
                  /\ ~log.success => log.output_state = before]_vars

\* C32 witness: a tool that wrote into the mapping and returned, then a tool
\* that wrote into it and raised, have been logged; the mapping differs from
\* the input_state of the last log.
C32_Witness ==
    /\ runs[RunIdPool[1]].pc = "check_log"
    /\ Len(runs[RunIdPool[1]].run.execution_logs) = 2
    /\ runs[RunIdPool[1]].run.execution_logs[1].success
    /\ runs[RunIdPool[1]].run.execution_logs[1].output_state
           # runs[RunIdPool[1]].run.execution_logs[1].input_state
    /\ ~runs[RunIdPool[1]].run.execution_logs[2].success
    /\ runs[RunIdPool[1]].run.current_state.data
           # runs[RunIdPool[1]].run.execution_logs[2].input_state

\* The number of distinct node names of the graph.
DistinctNames == Cardinality({graph.nodes[i].name : i \in DOMAIN graph.nodes})

\* C34: a run on a graph with n distinct node names and max_iterations
\* m >= 1 has at most n + m - 1 execution logs, and none with m = 0.
C34_LogsBounded ==
    /\ max_iterations >= 1 => Len(Logs) <= DistinctNames + max_iterations - 1
    /\ max_iterations = 0 => Len(Logs) = 0

\* C34 witness: a returned run that reached the bound with the largest cap,
\* on a graph of two nodes.
C34_Witness ==
    /\ Returned
    /\ DistinctNames = 2
    /\ max_iterations = MaxIter
    /\ Len(Logs) = DistinctNames + max_iterations - 1

C37_CurrentNodeIsLastExecuted ==
    Returned =>
        /\ run.current_node # None
        /\ run.current_node =
               IF Len(Logs) = 0 THEN graph.entry_point ELSE LastLog.node_name

\* C37 witness: a run returned from the cap check or the node lookup on a
\* successor other than the node it executed last.
C37_Witness ==
    /\ Returned
    /\ exc # NoError
    /\ Len(Logs) >= 2
    /\ current_node_name # LastLog.node_name
    /\ run.current_node = LastLog.node_name

\* C38: every run in storage has terminated: its status is completed or
\* failed and its completed_at is set; GET /graph/state never answers with
\* status pending or running, and the run_id of a run that is still being
\* executed is unknown to the storage (404).
C38_StoredRunsTerminated ==
    /\ \A i \in DOMAIN stored_runs :
          /\ stored_runs[i].status \in {COMPLETED, FAILED}
          /\ stored_runs[i].completed_at # None
          /\ get_run(stored_runs, stored_runs[i].run_id).completed_at = Stamped
    /\ (run_response.route = "state" /\ run_response.status_code = 200) =>
          /\ run_response.status \in {COMPLETED, FAILED}
          /\ run_response.completed_at # None
    /\ pc # "idle" => get_run(stored_runs, run.run_id).run_id = None

\* C38 witness: while the second run is being executed, GET /graph/state
\* for its run_id has been answered 404, and the first run is stored FAILED.
C38_Witness ==
    /\ pc = "select_next"
    /\ run.run_id = RunIdPool[2]
    /\ run.status = RUNNING
    /\ run_response.route = "state"
    /\ run_response.status_code = 404
    /\ run_response.detail[2] = RunIdPool[2]
    /\ Len(stored_runs) = 1
    /\ stored_runs[1].status = FAILED

\* C39: a tool name is looked up in the registry when its node is
\* dispatched: after a register with override the node runs the new
\* callable, after an unregister it fails with "tool not found", whatever
\* the registry held when the run started; a call of the registry changes
\* nothing of the run, so the nodes already executed and their logs stay.
C39_ResolvedAtDispatch ==
    [][/\ (pc = "execute_node" /\ pc' = "check_log") =>
             LET name == NodeMap(graph.nodes)[current_node_name].tool_name
             IN  IF name \notin DOMAIN tools
                 THEN /\ ~execution_log'.success
                      /\ execution_log'.error[1] = "Tool not found in registry"
                 ELSE /\ execution_log'.success
                      /\ execution_log'.output_state =
                             ToolResult(tools[name], run.current_state.data)
       /\ tools' # tools => /\ run' = run
                            /\ execution_log' = execution_log]_vars

\* C39 witness: the first node ran the tool registered at start-up, the
\* second the callable registered over it since, and the third found the
\* name unregistered.
C39_Witness ==
    /\ Len(Logs) = 3
    /\ Logs[1].success /\ Logs[1].output_state # Logs[1].input_state
    /\ Logs[2].success /\ Logs[2].output_state = Logs[2].input_state
    /\ ~Logs[3].success
    /\ Logs[3].error[1] = "Tool not found in registry"
    /\ Returned

\* C31: while the first call is inside a synchronous tool, however long
\* the tool blocks, the second call is not stalled: it has a step to take
\* until it has returned, and it does return with a terminal status.
C31_BlockedToolStallsNoOne ==
    /\ []((runs[RunIdPool[1]].pc = "in_tool" /\ runs[RunIdPool[2]].pc # "done")
             => ENABLED (LoopStep(RunIdPool[2]) \/ ToolReturns(RunIdPool[2])))
    /\ <>(/\ runs[RunIdPool[2]].pc = "done"
          /\ runs[RunIdPool[2]].run.status \in {COMPLETED, FAILED})

\* C31 witness: the first call is inside its first tool and has no log yet;
\* the second has executed two nodes, selected successors and returned.
C31_Witness ==
    /\ runs[RunIdPool[1]].pc = "in_tool"
    /\ Len(runs[RunIdPool[1]].run.execution_logs) = 0
    /\ runs[RunIdPool[2]].pc = "done"
    /\ Len(runs[RunIdPool[2]].run.execution_logs) >= 2
    /\ runs[RunIdPool[2]].run.status \in {COMPLETED, FAILED}

\* What a reference stands for: the mapping with the list it holds.
Value(h, d) ==
    [code |-> h[d].code, avg_complexity |-> h[d].avg_complexity,
     functions |-> IF h[d].functions = 0 THEN <<"absent">>
                   ELSE <<"list", h[h[d].functions].elems>>]

\* C36: execution_logs only grows, by one entry per node executed, and the
\* input_state and output_state of an entry already appended are never
\* changed by a later step of the run, also not by a later tool that writes
\* into the payload mapping or into a value nested in it.
C36_LogsAppendOnly ==
    [][/\ pc = "execute_node" =>
              Len(run'.execution_logs) = Len(run.execution_logs) + 1
       /\ pc # "execute_node" => run'.execution_logs = run.execution_logs
       /\ \A i \in DOMAIN run.execution_logs :
              /\ run'.execution_logs[i] = run.execution_logs[i]
              /\ Value(heap', run.execution_logs[i].input_state) =
                     Value(heap, run.execution_logs[i].input_state)
              /\ Value(heap', run.execution_logs[i].output_state) =
                     Value(heap, run.execution_logs[i].output_state)]_vars

\* How often the node "suggestions" was executed.
SuggestionsRuns ==
    Cardinality({i \in DOMAIN run.execution_logs :
                    run.execution_logs[i].node_name = "suggestions"})

\* C33: the code review graph, run with the cap of 10 and tools that do not
\* raise, always returns, COMPLETED and without error, after the node
\* "suggestions" was executed at most 5 times, whatever the initial state.
C33_ReviewLoopEndsByItself ==
    /\ <>Returned
    /\ [](Returned => /\ run.status = COMPLETED
                      /\ run.error = NoError
                      /\ SuggestionsRuns <= 5)

====
